---- MODULE Spec2Model ----
(***************************************************************************)
(* Startup funding dynamics simulation: the staged monthly pipeline of     *)
(* StartupModel / StagedActivation / StartupAgent.                         *)
(*                                                                         *)
(* Arithmetic.  The program computes with floats; the model computes with  *)
(* integers in fixed units:                                                *)
(*   money (K, B, R, V, funding_received, C_REG, S_G, SIGMA_R)  1 unit     *)
(*   PMF, PMF_MIN, SIGMA_PMF, shock dPMF, ETA                   1/10       *)
(*   rates (DELTA_*, GROWTH_RATE_M, TAU, KAPPA, ratios, dM)     percent    *)
(*   probabilities and uniform draws on [0,1)                   percent    *)
(*   logistic arguments                                         1/10       *)
(* and competition_index and runway are kept as exact fractions n/d.       *)
(***************************************************************************)
EXTENDS Integers, Sequences, FiniteSets, TLC

VARIABLES
    config,      \* the config module: one record of parameters
    model,       \* one StartupModel with its scheduler, agents and collector
    np_random,   \* state of numpy's global generator (seeded runs)
    runners      \* two StartupModel objects living in the same process

vars == <<config, model, np_random, runners>>

(***************************************************************************)
(* Bounds of the model.                                                    *)
(***************************************************************************)
MaxStartups == 2
MaxHorizon == 3
MaxSeed == 3
MaxRuns == 2

Undefined == -1      \* an attribute that has not been set (death_time)

Max(a, b) == IF a >= b THEN a ELSE b
Min(a, b) == IF a <= b THEN a ELSE b

\* np.clip(x, lo, hi)
clip(x, lo, hi) == Max(lo, Min(x, hi))

\* PMF value 1.0 in tenths
PMF_ONE == 10

(***************************************************************************)
(* config.py.  DefaultConfig keeps the shape of the shipped defaults in    *)
(* the model's units; the other records are configurations a user can      *)
(* save from the parameter GUI (which accepts any number) or set in        *)
(* config.py.                                                              *)
(***************************************************************************)
DefaultConfig ==
    [ NUM_STARTUPS |-> 2, TIME_HORIZON |-> 2, RANDOM_SEED |-> 1,
      K0_MIN |-> 20, K0_MAX |-> 20,
      B0_MIN_RATIO |-> 80, B0_MAX_RATIO |-> 80,
      R0_INITIAL |-> 0,
      GAMMA |-> 2, EPSILON_PRICE |-> 1, BASE_PRICE |-> 10,
      SIGMA_R |-> 4, Q_T |-> 1,
      DELTA_GROWTH |-> 20, DELTA_CUT |-> 15, RUNWAY_LOW_THRESHOLD |-> 3,
      ETA |-> 1, SIGMA_PMF |-> 0,
      LAMBDA_1 |-> 10, LAMBDA_2 |-> 1, LAMBDA_3 |-> 2,
      FUNDING_INTERVAL |-> 2, ALPHA_REVENUE_BURN |-> 30, PMF_MIN |-> 3,
      BETA_1 |-> 5, BETA_2 |-> 5, BETA_3 |-> 20,
      KAPPA |-> 25,
      M0_INITIAL |-> 100, GROWTH_RATE_M |-> 5,
      POLICY_INTERVAL |-> 3, C_REG |-> 5, S_G |-> 3, TAU |-> 18,
      P_SHOCK |-> 0,
      DELTA_PMF_SHOCK_MIN |-> -1, DELTA_PMF_SHOCK_MAX |-> 2,
      DELTA_M_SHOCK_MIN |-> -5, DELTA_M_SHOCK_MAX |-> 10,
      V_EXIT |-> 40 ]

\* shocks every so often, large swings
ShockConfig ==
    [DefaultConfig EXCEPT !.P_SHOCK = 5, !.SIGMA_R = 0,
                          !.DELTA_PMF_SHOCK_MIN = -8, !.DELTA_PMF_SHOCK_MAX = 8,
                          !.DELTA_M_SHOCK_MIN = -150, !.DELTA_M_SHOCK_MAX = 50,
                          !.B0_MIN_RATIO = 100, !.B0_MAX_RATIO = 100]

\* funding and policy every month, a subsidy above the compliance cost
SubsidyConfig ==
    [DefaultConfig EXCEPT !.FUNDING_INTERVAL = 1, !.POLICY_INTERVAL = 1,
                          !.S_G = 10, !.C_REG = 0, !.BETA_1 = 4,
                          !.SIGMA_R = 0, !.ALPHA_REVENUE_BURN = 0,
                          !.B0_MIN_RATIO = 50, !.B0_MAX_RATIO = 100,
                          !.K0_MIN = 40, !.K0_MAX = 40]

\* a burn-rate cut above 100% and a growth below -100%
OverCutConfig ==
    [DefaultConfig EXCEPT !.DELTA_CUT = 150, !.DELTA_GROWTH = -150,
                          !.SIGMA_R = 0, !.FUNDING_INTERVAL = 1,
                          !.B0_MIN_RATIO = 50, !.B0_MAX_RATIO = 50,
                          !.ALPHA_REVENUE_BURN = 0, !.PMF_MIN = 0]

\* a small market, PMF noise only, burn rates at or above the initial capital
LeanMarketConfig ==
    [DefaultConfig EXCEPT !.SIGMA_R = 0, !.SIGMA_PMF = 1, !.M0_INITIAL = 40,
                          !.B0_MIN_RATIO = 100, !.B0_MAX_RATIO = 150]

\* funding and policy every third month, no revenue or PMF requirement
RareRoundsConfig ==
    [DefaultConfig EXCEPT !.FUNDING_INTERVAL = 3, !.POLICY_INTERVAL = 3,
                          !.SIGMA_R = 0, !.ALPHA_REVENUE_BURN = 0,
                          !.PMF_MIN = 0]

Configs ==
    {DefaultConfig, ShockConfig, SubsidyConfig, OverCutConfig, LeanMarketConfig,
     RareRoundsConfig}

(***************************************************************************)
(* Draws.  A distribution is modelled by a small set of the values it can  *)
(* produce; a generator state picks one of them (Pick).                    *)
(***************************************************************************)
\* np.random.uniform(lo, hi): the two ends of the range
UniformDraws(lo, hi) == IF lo = hi THEN <<lo>> ELSE <<lo, hi>>

\* np.random.normal(0, sigma): one sigma below and above the mean
NormalDraws(sigma) == IF sigma = 0 THEN <<0>> ELSE <<-sigma, sigma>>

\* np.random.random(): a low and a high value of [0,1), in percent
RandomDraws == <<2, 60>>

\* np.random.beta(a, b): a value of [0,1], in tenths
BetaDraws == <<2, 6>>

Range(s) == {s[k] : k \in 1..Len(s)}

(***************************************************************************)
(* Numeric helpers.                                                        *)
(***************************************************************************)
\* 1 / (1 + np.exp(-z)) in percent, z in tenths: the logistic curve at the
\* integer part of z, saturating at 5% and 95%.
Logistic(z) ==
    LET n == z \div 10
    IN  IF n <= -3 THEN 5
        ELSE IF n = -2 THEN 12
        ELSE IF n = -1 THEN 27
        ELSE IF n = 0 THEN 50
        ELSE IF n = 1 THEN 73
        ELSE IF n = 2 THEN 88
        ELSE 95

\* np.log(x) for an integer x >= 1, rounded down (e ~ 2718/1000)
RECURSIVE Log(_)
Log(x) == IF x < 3 THEN 0 ELSE 1 + Log((x * 1000) \div 2718)

\* an exact fraction n/d with d > 0
Frac(n, d) == [n |-> n, d |-> d]

\* runway: a number n/d, or float('inf')
Finite(n, d) == [inf |-> FALSE, n |-> n, d |-> d]
Infinite == [inf |-> TRUE, n |-> 0, d |-> 1]

\* runway < threshold
RunwayBelow(runway, threshold) ==
    ~runway.inf /\ runway.n < threshold * runway.d

(***************************************************************************)
(* StartupAgent                                                            *)
(***************************************************************************)
\* StartupAgent.__init__ with the three values it draws
NewAgent(k0, b0, pmf0) ==
    [ K |-> k0,
      B |-> b0,
      R |-> config.R0_INITIAL,
      PMF |-> pmf0,
      V |-> config.LAMBDA_3 * k0,
      S |-> 1,
      just_funded |-> FALSE,
      funding_received |-> 0,
      runway |-> IF b0 > 0 THEN Finite(k0, b0) ELSE Infinite,
      death_time |-> Undefined ]

\* the values B0 can take for a drawn K0
B0Draws(k0) ==
    UniformDraws((config.B0_MIN_RATIO * k0) \div 100,
                 (config.B0_MAX_RATIO * k0) \div 100)

K0Draws == UniformDraws(config.K0_MIN, config.K0_MAX)

\* stage 3 that returns at once for a dead entity, leaving its last revenue
stage_consumer_adoption_keeps_R(a, m, epsilon_r) ==
    IF a.S = 0 THEN a
    ELSE
      LET exponent == -config.GAMMA
                        * (a.PMF - config.EPSILON_PRICE * config.BASE_PRICE)
          p_a == Logistic(-exponent)
          R_bar == (m.market_size * p_a * config.Q_T
                      * (m.competition_index.d - m.competition_index.n))
                     \div (100 * m.competition_index.d)
      IN  [a EXCEPT !.R = Max(0, R_bar + epsilon_r)]

\* stage 3 that adds the noise without the floor at 0
stage_consumer_adoption_no_floor(a, m, epsilon_r) ==
    IF a.S = 0 THEN [a EXCEPT !.R = 0]
    ELSE
      LET exponent == -config.GAMMA
                        * (a.PMF - config.EPSILON_PRICE * config.BASE_PRICE)
          p_a == Logistic(-exponent)
          R_bar == (m.market_size * p_a * config.Q_T
                      * (m.competition_index.d - m.competition_index.n))
                     \div (100 * m.competition_index.d)
      IN  [a EXCEPT !.R = R_bar + epsilon_r]

\* stage 3 whose expected revenue grows with the competition index
stage_consumer_adoption_share(a, m, epsilon_r) ==
    IF a.S = 0 THEN [a EXCEPT !.R = 0]
    ELSE
      LET exponent == -config.GAMMA
                        * (a.PMF - config.EPSILON_PRICE * config.BASE_PRICE)
          p_a == Logistic(-exponent)
          R_bar == (m.market_size * p_a * config.Q_T * m.competition_index.n)
                     \div (100 * m.competition_index.d)
      IN  [a EXCEPT !.R = Max(0, R_bar + epsilon_r)]

\* Stage 3.  m is the agent's model; epsilon_r the revenue noise drawn.
stage_consumer_adoption(a, m, epsilon_r) ==
    IF a.S = 0 THEN [a EXCEPT !.R = 0]
    ELSE
      LET exponent == -config.GAMMA
                        * (a.PMF - config.EPSILON_PRICE * config.BASE_PRICE)
          p_a == Logistic(-exponent)
          M_t == m.market_size
          theta_t == m.competition_index
          q_t == config.Q_T
          R_bar == (M_t * p_a * q_t * (theta_t.d - theta_t.n))
                     \div (100 * theta_t.d)
      IN  [a EXCEPT !.R = Max(0, R_bar + epsilon_r)]

\* stage 4 that grows the burn rate of a funded entity but keeps the flag
stage_internal_dynamics_keeps_flag(a) ==
    IF a.S = 0 THEN a
    ELSE IF a.just_funded
      THEN [a EXCEPT !.B = (a.B * (100 + config.DELTA_GROWTH)) \div 100]
    ELSE IF RunwayBelow(a.runway, config.RUNWAY_LOW_THRESHOLD) /\ a.B > 0
      THEN [a EXCEPT !.B = (a.B * (100 - config.DELTA_CUT)) \div 100]
    ELSE a

\* stage 4 with two independent tests: a funded entity whose runway is low
\* gets the growth and then the cut
stage_internal_dynamics_both(a) ==
    IF a.S = 0 THEN a
    ELSE
      LET grown == IF a.just_funded
                     THEN (a.B * (100 + config.DELTA_GROWTH)) \div 100
                     ELSE a.B
      IN  [a EXCEPT
             !.B = IF RunwayBelow(a.runway, config.RUNWAY_LOW_THRESHOLD)
                      /\ grown > 0
                     THEN (grown * (100 - config.DELTA_CUT)) \div 100
                     ELSE grown,
             !.just_funded = FALSE]

\* Stage 4
stage_internal_dynamics(a) ==
    IF a.S = 0 THEN a
    ELSE IF a.just_funded
      THEN [a EXCEPT !.B = (a.B * (100 + config.DELTA_GROWTH)) \div 100,
                     !.just_funded = FALSE]
    ELSE IF RunwayBelow(a.runway, config.RUNWAY_LOW_THRESHOLD) /\ a.B > 0
      THEN [a EXCEPT !.B = (a.B * (100 - config.DELTA_CUT)) \div 100]
    ELSE a

\* stage 5 with the death test K < 0 in place of K <= 0
stage_capital_update_strict(a, steps) ==
    IF a.S = 0 THEN a
    ELSE
      LET K1 == a.K + a.R - a.B + a.funding_received
          died == K1 < 0
      IN  [a EXCEPT !.K = IF died THEN 0 ELSE K1,
                    !.funding_received = 0,
                    !.S = IF died THEN 0 ELSE a.S,
                    !.death_time = IF died THEN steps ELSE a.death_time,
                    !.runway = IF ~died /\ a.B > 0 THEN Finite(K1, a.B)
                               ELSE IF died THEN Finite(0, 1)
                               ELSE Infinite]

\* stage 5 that marks the death but leaves K as computed
stage_capital_update_no_clamp(a, steps) ==
    IF a.S = 0 THEN a
    ELSE
      LET K1 == a.K + a.R - a.B + a.funding_received
          died == K1 <= 0
      IN  [a EXCEPT !.K = K1,
                    !.funding_received = 0,
                    !.S = IF died THEN 0 ELSE a.S,
                    !.death_time = IF died THEN steps ELSE a.death_time,
                    !.runway = IF ~died /\ a.B > 0 THEN Finite(K1, a.B)
                               ELSE IF died THEN Finite(0, 1)
                               ELSE Infinite]

\* stage 5 that leaves the runway as it was
stage_capital_update_keeps_runway(a, steps) ==
    IF a.S = 0 THEN a
    ELSE
      LET K1 == a.K + a.R - a.B + a.funding_received
          died == K1 <= 0
      IN  [a EXCEPT !.K = IF died THEN 0 ELSE K1,
                    !.funding_received = 0,
                    !.S = IF died THEN 0 ELSE a.S,
                    !.death_time = IF died THEN steps ELSE a.death_time]

\* stage 5 that adds the funding but does not reset it
stage_capital_update_keeps_funding(a, steps) ==
    IF a.S = 0 THEN a
    ELSE
      LET K1 == a.K + a.R - a.B + a.funding_received
          died == K1 <= 0
      IN  [a EXCEPT !.K = IF died THEN 0 ELSE K1,
                    !.S = IF died THEN 0 ELSE a.S,
                    !.death_time = IF died THEN steps ELSE a.death_time,
                    !.runway = IF ~died /\ a.B > 0 THEN Finite(K1, a.B)
                               ELSE IF died THEN Finite(0, 1)
                               ELSE Infinite]

\* Stage 5.  steps is model.schedule.steps.
stage_capital_update(a, steps) ==
    IF a.S = 0 THEN a
    ELSE
      LET F_t == a.funding_received
          K1 == a.K + a.R - a.B + F_t
          died == K1 <= 0
          S1 == IF died THEN 0 ELSE a.S
          K2 == IF died THEN 0 ELSE K1
      IN  [a EXCEPT !.K = K2,
                    !.funding_received = 0,
                    !.S = S1,
                    !.death_time = IF died THEN steps ELSE a.death_time,
                    !.runway = IF S1 = 1 /\ a.B > 0 THEN Finite(K2, a.B)
                               ELSE IF S1 = 0 THEN Finite(0, 1)
                               ELSE Infinite]

\* stage 6 that values the entity with the PMF it had before the update
stage_pmf_valuation_update_old_pmf(a, epsilon_p) ==
    IF a.S = 0 THEN a
    ELSE
      LET PMF1 == a.PMF + config.ETA * Log(1 + a.R) + epsilon_p
          PMF2 == clip(PMF1, 0, PMF_ONE)
      IN  [a EXCEPT !.PMF = PMF2,
                    !.V = config.LAMBDA_1 * a.R
                          + config.LAMBDA_2 * a.PMF
                          + config.LAMBDA_3 * a.K]

\* Stage 6.  epsilon_p is the PMF noise drawn.
stage_pmf_valuation_update(a, epsilon_p) ==
    IF a.S = 0 THEN a
    ELSE
      LET PMF1 == a.PMF + config.ETA * Log(1 + a.R) + epsilon_p
          PMF2 == clip(PMF1, 0, PMF_ONE)
      IN  [a EXCEPT !.PMF = PMF2,
                    !.V = config.LAMBDA_1 * a.R
                          + config.LAMBDA_2 * PMF2
                          + config.LAMBDA_3 * a.K]

\* R/B >= alpha and PMF >= PMF_min, with R/B taken as 0 when B is not positive
is_eligible(a) ==
    /\ IF a.B > 0 THEN 100 * a.R >= config.ALPHA_REVENUE_BURN * a.B
                  ELSE 0 >= config.ALPHA_REVENUE_BURN
    /\ a.PMF >= config.PMF_MIN

\* funding probability in percent
p_fund(a, m) ==
    LET theta_t == m.competition_index
        z == config.BETA_1 * a.PMF
             + config.BETA_2 * Log(a.R + 1)
             - (config.BETA_3 * theta_t.n) \div theta_t.d
    IN  Logistic(z)

\* the cadence test that never holds in the first month
IsDueAfterStart(steps, interval) == steps > 0 /\ steps % interval = 0

\* the cadence test on months counted from 1
IsDueOneBased(steps, interval) == (steps + 1) % interval = 0

\* is this month one where the stage with the given interval acts
IsDue(steps, interval) == steps % interval = 0

\* stage 7 whose eligibility test leaves out the PMF threshold
stage_funding_ignores_pmf(a, m, u) ==
    IF a.S = 0 THEN [a EXCEPT !.funding_received = 0]
    ELSE IF ~IsDue(m.steps, config.FUNDING_INTERVAL)
      THEN [a EXCEPT !.funding_received = 0]
    ELSE IF ~(IF a.B > 0 THEN 100 * a.R >= config.ALPHA_REVENUE_BURN * a.B
                         ELSE 0 >= config.ALPHA_REVENUE_BURN)
      THEN [a EXCEPT !.funding_received = 0]
    ELSE IF u < p_fund(a, m)
      THEN [a EXCEPT !.funding_received = (config.KAPPA * a.V) \div 100,
                     !.just_funded = TRUE]
    ELSE [a EXCEPT !.funding_received = 0]

\* stage 7 without the early return for a dead entity, where a funded
\* entity is flagged alive
stage_funding_revives(a, m, u) ==
    IF ~IsDue(m.steps, config.FUNDING_INTERVAL)
      THEN [a EXCEPT !.funding_received = 0]
    ELSE IF ~is_eligible(a) THEN [a EXCEPT !.funding_received = 0]
    ELSE IF u < p_fund(a, m)
      THEN [a EXCEPT !.funding_received = (config.KAPPA * a.V) \div 100,
                     !.just_funded = TRUE,
                     !.S = 1]
    ELSE [a EXCEPT !.funding_received = 0]

\* stage_funding that holds a round in every month
stage_funding_every_month(a, m, u) ==
    IF a.S = 0 THEN [a EXCEPT !.funding_received = 0]
    ELSE IF ~is_eligible(a) THEN [a EXCEPT !.funding_received = 0]
    ELSE IF u < p_fund(a, m)
      THEN [a EXCEPT !.funding_received = (config.KAPPA * a.V) \div 100,
                     !.just_funded = TRUE]
    ELSE [a EXCEPT !.funding_received = 0]

\* Stage 7.  u is the value np.random.random() returns if it is called.
stage_funding(a, m, u) ==
    IF a.S = 0 THEN [a EXCEPT !.funding_received = 0]
    ELSE IF ~IsDue(m.steps, config.FUNDING_INTERVAL)
      THEN [a EXCEPT !.funding_received = 0]
    ELSE IF ~is_eligible(a) THEN [a EXCEPT !.funding_received = 0]
    ELSE IF u < p_fund(a, m)
      THEN [a EXCEPT !.funding_received = (config.KAPPA * a.V) \div 100,
                     !.just_funded = TRUE]
    ELSE [a EXCEPT !.funding_received = 0]

\* Stage 8
stage_policy(a, m) ==
    IF a.S = 0 THEN a
    ELSE IF ~IsDue(m.steps, config.POLICY_INTERVAL) THEN a
    ELSE
      LET policy_impact == config.C_REG - config.S_G
                           + (config.TAU * a.R) \div 100
      IN  [a EXCEPT !.B = Max(0, a.B + policy_impact)]

(***************************************************************************)
(* StagedActivation and StartupModel                                       *)
(***************************************************************************)
stage_list ==
    << "stage_shock", "stage_market_update", "stage_consumer_adoption",
       "stage_internal_dynamics", "stage_capital_update",
       "stage_pmf_valuation_update", "stage_funding", "stage_policy" >>

\* the record of draws one stage call may consume
NoDraws == [epsilon_r |-> 0, epsilon_p |-> 0, u |-> 0]

\* getattr(agent, stage)()
CallStage(stage, a, m, d) ==
    CASE stage = "stage_shock" -> a
      [] stage = "stage_market_update" -> a
      [] stage = "stage_consumer_adoption" ->
             stage_consumer_adoption(a, m, d.epsilon_r)
      [] stage = "stage_internal_dynamics" -> stage_internal_dynamics(a)
      [] stage = "stage_capital_update" -> stage_capital_update(a, m.steps)
      [] stage = "stage_pmf_valuation_update" ->
             stage_pmf_valuation_update(a, d.epsilon_p)
      [] stage = "stage_funding" -> stage_funding(a, m, d.u)
      [] stage = "stage_policy" -> stage_policy(a, m)

Agents(m) == DOMAIN m.agents

Alive(m) == {i \in Agents(m) : m.agents[i].S = 1}
Dead(m) == {i \in Agents(m) : m.agents[i].S = 0}

RECURSIVE Sum(_, _)
Sum(f, S) == IF S = {} THEN 0
             ELSE LET x == CHOOSE y \in S : TRUE
                  IN  f[x] + Sum(f, S \ {x})

\* np.mean over the alive agents, or 0 when there is none
MeanAlive(m, f) ==
    IF Alive(m) # {} THEN Frac(Sum(f, Alive(m)), Cardinality(Alive(m)))
    ELSE Frac(0, 1)

\* a snapshot whose failure rate divides by the number of alive entities
SnapshotFailureOverAlive(m) ==
    [ Alive_Startups |-> Cardinality(Alive(m)),
      Dead_Startups |-> Cardinality(Dead(m)),
      Failure_Rate |-> Frac(Cardinality(Dead(m)), Cardinality(Alive(m))),
      Total_Funding |->
          Sum([i \in Agents(m) |-> m.agents[i].funding_received], Alive(m)),
      Avg_Valuation |-> MeanAlive(m, [i \in Agents(m) |-> m.agents[i].V]),
      Avg_PMF |-> MeanAlive(m, [i \in Agents(m) |-> m.agents[i].PMF]),
      Avg_Revenue |-> MeanAlive(m, [i \in Agents(m) |-> m.agents[i].R]),
      Market_Size |-> m.market_size,
      Competition_Index |-> m.competition_index,
      agent_vars |->
          [i \in Agents(m) |->
              [ Capital |-> m.agents[i].K,
                Burn_Rate |-> m.agents[i].B,
                Revenue |-> m.agents[i].R,
                PMF |-> m.agents[i].PMF,
                Valuation |-> m.agents[i].V,
                Survival |-> m.agents[i].S,
                Funding_Received |-> m.agents[i].funding_received,
                Death_Time |-> m.agents[i].death_time ]] ]

\* DataCollector.collect: one row of model reporters and one of agent reporters
Snapshot(m) ==
    [ Alive_Startups |-> Cardinality(Alive(m)),
      Dead_Startups |-> Cardinality(Dead(m)),
      Failure_Rate |-> Frac(Cardinality(Dead(m)), Cardinality(Agents(m))),
      Total_Funding |->
          Sum([i \in Agents(m) |-> m.agents[i].funding_received], Alive(m)),
      Avg_Valuation |-> MeanAlive(m, [i \in Agents(m) |-> m.agents[i].V]),
      Avg_PMF |-> MeanAlive(m, [i \in Agents(m) |-> m.agents[i].PMF]),
      Avg_Revenue |-> MeanAlive(m, [i \in Agents(m) |-> m.agents[i].R]),
      Market_Size |-> m.market_size,
      Competition_Index |-> m.competition_index,
      agent_vars |->
          [i \in Agents(m) |->
              [ Capital |-> m.agents[i].K,
                Burn_Rate |-> m.agents[i].B,
                Revenue |-> m.agents[i].R,
                PMF |-> m.agents[i].PMF,
                Valuation |-> m.agents[i].V,
                Survival |-> m.agents[i].S,
                Funding_Received |-> m.agents[i].funding_received,
                Death_Time |-> m.agents[i].death_time ]] ]

\* get_success_count that tests the valuation only
get_success_count_ignores_S(m) ==
    Sum([i \in Agents(m) |->
            IF m.agents[i].V >= config.V_EXIT THEN 1 ELSE 0],
        Agents(m))

\* StartupModel.get_success_count: sum(1 for agent if S == 1 and V >= V_EXIT)
get_success_count(m) ==
    Sum([i \in Agents(m) |->
            IF m.agents[i].S = 1 /\ m.agents[i].V >= config.V_EXIT
            THEN 1 ELSE 0],
        Agents(m))

\* sorted(values): the list in ascending order
RECURSIVE Sorted(_)
Sorted(values) ==
    IF values = << >> THEN << >>
    ELSE LET last == values[Len(values)]
             rest == Sorted(SubSeq(values, 1, Len(values) - 1))
             below == Cardinality({j \in DOMAIN rest : rest[j] <= last})
         IN  SubSeq(rest, 1, below) \o <<last>>
               \o SubSeq(rest, below + 1, Len(rest))

\* ten times np.percentile(values, 90) of a non-empty list: numpy
\* interpolates linearly between the two ranks around 0.9 * (n - 1)
percentile_90(values) ==
    LET s == Sorted(values)
        pos == 9 * (Len(s) - 1)
        lo == (pos \div 10) + 1
    IN  IF pos % 10 = 0 THEN 10 * s[lo]
        ELSE 10 * s[lo] + (pos % 10) * (s[lo + 1] - s[lo])

\* the list [f(a) for a in m.schedule.agents if a.S == 1]
RECURSIVE AliveValues(_, _)
AliveValues(m, f) ==
    IF m.agents = << >> THEN << >>
    ELSE LET i == Len(m.agents)
             before == AliveValues([m EXCEPT !.agents = SubSeq(@, 1, i - 1)], f)
         IN  IF m.agents[i].S = 1 THEN Append(before, f[i]) ELSE before

\* StartupModel.get_top_10_percent_count
get_top_10_percent_count(m) ==
    LET valuations == AliveValues(m, [i \in Agents(m) |-> m.agents[i].V])
    IN  IF valuations = << >> THEN 0
        ELSE Cardinality({j \in DOMAIN valuations :
                            10 * valuations[j] >= percentile_90(valuations)})

\* get_survival_times that reports months counted from one
RECURSIVE get_survival_times_one_based(_)
get_survival_times_one_based(m) ==
    IF m.agents = << >> THEN << >>
    ELSE LET agent == m.agents[Len(m.agents)]
             before == get_survival_times_one_based(
                         [m EXCEPT !.agents = SubSeq(@, 1, Len(@) - 1)])
         IN  IF agent.S = 0 /\ agent.death_time # Undefined
             THEN Append(before, agent.death_time + 1)
             ELSE before

\* StartupModel.get_survival_times: the death_time of every agent that is
\* dead and has one, in schedule order
RECURSIVE get_survival_times(_)
get_survival_times(m) ==
    IF m.agents = << >> THEN << >>
    ELSE LET agent == m.agents[Len(m.agents)]
             before == get_survival_times(
                         [m EXCEPT !.agents = SubSeq(@, 1, Len(@) - 1)])
         IN  IF agent.S = 0 /\ agent.death_time # Undefined
             THEN Append(before, agent.death_time)
             ELSE before

\* a constructor that starts the competition index at 1
NewModelThetaOne(agents) ==
    [ agents |-> agents,
      market_size |-> config.M0_INITIAL,
      initial_startups |-> Cardinality(DOMAIN agents),
      competition_index |-> Frac(1, 1),
      steps |-> 0,
      datacollector |-> << >>,
      pc |-> "ready",
      loop |-> 0,
      stage_i |-> 0,
      agent_i |-> 0,
      world_calls |-> << >>,
      calls |-> [i \in DOMAIN agents |-> << >>] ]

\* StartupModel.__init__ once its agents are drawn
NewModel(agents) ==
    [ agents |-> agents,
      market_size |-> config.M0_INITIAL,
      initial_startups |-> Cardinality(DOMAIN agents),
      competition_index |-> Frac(0, 1),
      steps |-> 0,
      datacollector |-> << >>,
      pc |-> "ready",
      loop |-> 0,
      stage_i |-> 0,
      agent_i |-> 0,
      world_calls |-> << >>,
      calls |-> [i \in DOMAIN agents |-> << >>] ]

\* run_model whose loop runs once more than asked
run_model_one_more(m, h) ==
    [m EXCEPT !.loop = h + 1, !.pc = "collect"]

\* StartupModel.run_model entered with steps = h
run_model(m, h) ==
    [m EXCEPT !.loop = h,
              !.pc = IF h > 0 THEN "collect" ELSE "final_collect"]

\* StartupModel.step, first statement: collect, then enter schedule.step
collect(m) ==
    [m EXCEPT !.datacollector = Append(@, Snapshot(m)),
              !.pc = "apply_shocks",
              !.world_calls = << >>,
              !.calls = [i \in Agents(m) |-> << >>]]

\* the end of run_model without the final data collection
final_collect_without_snapshot(m) == [m EXCEPT !.pc = "done"]

\* the final data collection of run_model
final_collect(m) ==
    [m EXCEPT !.datacollector = Append(@, Snapshot(m)), !.pc = "done"]

\* stage 1 that shocks the PMF of every entity, dead ones included
apply_shocks_all_entities(m, u, delta_pmf, delta_m) ==
    LET shocked ==
          [m EXCEPT
             !.agents = [i \in Agents(m) |->
                 [m.agents[i] EXCEPT
                    !.PMF = clip(m.agents[i].PMF + delta_pmf, 0, PMF_ONE)]],
             !.market_size = Max(0, (m.market_size * (100 + delta_m)) \div 100)]
        after == IF u < config.P_SHOCK THEN shocked ELSE m
    IN  [after EXCEPT !.pc = "update_market",
                      !.world_calls = Append(@, "apply_shocks")]

\* stage 1 that adds the PMF shock without clipping
apply_shocks_no_clip(m, u, delta_pmf, delta_m) ==
    LET shocked ==
          [m EXCEPT
             !.agents = [i \in Agents(m) |->
                 IF m.agents[i].S = 1
                 THEN [m.agents[i] EXCEPT !.PMF = m.agents[i].PMF + delta_pmf]
                 ELSE m.agents[i]],
             !.market_size = Max(0, (m.market_size * (100 + delta_m)) \div 100)]
        after == IF u < config.P_SHOCK THEN shocked ELSE m
    IN  [after EXCEPT !.pc = "update_market",
                      !.world_calls = Append(@, "apply_shocks")]

\* stage 1 that draws the PMF shock again for each entity: every second
\* entity gets the opposite end of the range
apply_shocks_per_agent(m, u, delta_pmf, delta_m) ==
    LET other == config.DELTA_PMF_SHOCK_MIN + config.DELTA_PMF_SHOCK_MAX
                   - delta_pmf
        shocked ==
          [m EXCEPT
             !.agents = [i \in Agents(m) |->
                 IF m.agents[i].S = 1
                 THEN [m.agents[i] EXCEPT
                         !.PMF = clip(m.agents[i].PMF
                                        + (IF i % 2 = 1 THEN delta_pmf ELSE other),
                                      0, PMF_ONE)]
                 ELSE m.agents[i]],
             !.market_size = Max(0, (m.market_size * (100 + delta_m)) \div 100)]
        after == IF u < config.P_SHOCK THEN shocked ELSE m
    IN  [after EXCEPT !.pc = "update_market",
                      !.world_calls = Append(@, "apply_shocks")]

\* Stage 1.  u is the Bernoulli draw; the deltas are drawn only on a shock.
apply_shocks(m, u, delta_pmf, delta_m) ==
    LET shocked ==
          [m EXCEPT
             !.agents = [i \in Agents(m) |->
                 IF m.agents[i].S = 1
                 THEN [m.agents[i] EXCEPT
                         !.PMF = clip(m.agents[i].PMF + delta_pmf, 0, PMF_ONE)]
                 ELSE m.agents[i]],
             !.market_size = Max(0, (m.market_size * (100 + delta_m)) \div 100)]
        after == IF u < config.P_SHOCK THEN shocked ELSE m
    IN  [after EXCEPT !.pc = "update_market",
                      !.world_calls = Append(@, "apply_shocks")]

\* stage 2 with the fraction upside down
update_market_inverted(m) ==
    LET active_startups == Cardinality(Alive(m))
    IN  [m EXCEPT
           !.market_size = (m.market_size * (100 + config.GROWTH_RATE_M)) \div 100,
           !.competition_index = Frac(m.initial_startups, active_startups),
           !.pc = "agents",
           !.stage_i = 3,
           !.agent_i = 1,
           !.world_calls = Append(@, "update_market")]

\* stage 2 that counts every scheduled entity, dead ones included
update_market_counts_all(m) ==
    [m EXCEPT
       !.market_size = (m.market_size * (100 + config.GROWTH_RATE_M)) \div 100,
       !.competition_index = Frac(Cardinality(Agents(m)), m.initial_startups),
       !.pc = "agents",
       !.stage_i = 3,
       !.agent_i = 1,
       !.world_calls = Append(@, "update_market")]

\* stage 2 that applies the market growth twice
update_market_grows_twice(m) ==
    LET active_startups == Cardinality(Alive(m))
        once == (m.market_size * (100 + config.GROWTH_RATE_M)) \div 100
    IN  [m EXCEPT
           !.market_size = (once * (100 + config.GROWTH_RATE_M)) \div 100,
           !.competition_index = Frac(active_startups, m.initial_startups),
           !.pc = "agents",
           !.stage_i = 3,
           !.agent_i = 1,
           !.world_calls = Append(@, "update_market")]

\* Stage 2
update_market(m) ==
    LET active_startups == Cardinality(Alive(m))
    IN  [m EXCEPT
           !.market_size = (m.market_size * (100 + config.GROWTH_RATE_M)) \div 100,
           !.competition_index = Frac(active_startups, m.initial_startups),
           !.pc = "agents",
           !.stage_i = 3,
           !.agent_i = 1,
           !.world_calls = Append(@, "update_market")]

\* the loops nested the other way round: all stages of one agent, then the
\* next agent
NextPositionAgentMajor(m) ==
    IF m.stage_i < Len(stage_list)
      THEN [stage_i |-> m.stage_i + 1, agent_i |-> m.agent_i]
    ELSE IF m.agent_i < Cardinality(Agents(m))
      THEN [stage_i |-> 3, agent_i |-> m.agent_i + 1]
    ELSE [stage_i |-> 0, agent_i |-> 0]

\* the position after (stage_i, agent_i) in the nested loops of
\* StagedActivation.step; stage_i = 0 once both loops are over
NextPosition(m) ==
    IF m.agent_i < Cardinality(Agents(m))
      THEN [stage_i |-> m.stage_i, agent_i |-> m.agent_i + 1]
    ELSE IF m.stage_i < Len(stage_list)
      THEN [stage_i |-> m.stage_i + 1, agent_i |-> 1]
    ELSE [stage_i |-> 0, agent_i |-> 0]

\* an inner-loop iteration after which the competition index is recounted
agent_stage_recounts(m, d) ==
    LET stage == stage_list[m.stage_i]
        i == m.agent_i
        called == [m EXCEPT !.agents[i] = CallStage(stage, m.agents[i], m, d),
                            !.calls[i] = Append(@, stage)]
        recounted == [called EXCEPT !.competition_index =
                         Frac(Cardinality(Alive(called)), m.initial_startups)]
        next == NextPosition(m)
    IN  IF next.stage_i # 0
        THEN [recounted EXCEPT !.stage_i = next.stage_i,
                               !.agent_i = next.agent_i]
        ELSE [recounted EXCEPT !.stage_i = 0, !.agent_i = 0,
                               !.steps = m.steps + 1,
                               !.loop = m.loop - 1,
                               !.pc = IF m.loop - 1 > 0 THEN "collect"
                                      ELSE "final_collect"]

\* one iteration of the inner loop of StagedActivation.step; after the last
\* one the step counter advances and run_model's loop goes on or ends
agent_stage(m, d) ==
    LET stage == stage_list[m.stage_i]
        i == m.agent_i
        called == [m EXCEPT !.agents[i] = CallStage(stage, m.agents[i], m, d),
                            !.calls[i] = Append(@, stage)]
        next == NextPosition(m)
    IN  IF next.stage_i # 0
        THEN [called EXCEPT !.stage_i = next.stage_i, !.agent_i = next.agent_i]
        ELSE [called EXCEPT !.stage_i = 0, !.agent_i = 0,
                            !.steps = m.steps + 1,
                            !.loop = m.loop - 1,
                            !.pc = IF m.loop - 1 > 0 THEN "collect"
                                   ELSE "final_collect"]

(***************************************************************************)
(* One runner: every draw is any value its distribution can produce.       *)
(***************************************************************************)
InitialAgents ==
    UNION { {NewAgent(k0, b0, pmf0) :
                b0 \in Range(B0Draws(k0)), pmf0 \in Range(BetaDraws)} :
            k0 \in Range(K0Draws) }

Idle == << >>    \* no second runner in this process

Init ==
    /\ config \in Configs
    /\ \E n \in 1..MaxStartups :
          model \in {NewModel(agents) : agents \in [1..n -> InitialAgents]}
    /\ np_random = 0
    /\ runners = Idle

AtStage(stage) ==
    /\ model.pc = "agents"
    /\ stage_list[model.stage_i] = stage

RunModel ==
    /\ model.pc = "ready"
    /\ \E h \in 0..MaxHorizon : model' = run_model(model, h)
    /\ UNCHANGED <<config, np_random, runners>>

Collect ==
    /\ model.pc = "collect"
    /\ model' = collect(model)
    /\ UNCHANGED <<config, np_random, runners>>

ApplyShocks ==
    /\ model.pc = "apply_shocks"
    /\ \E u \in Range(RandomDraws) :
          IF u < config.P_SHOCK
          THEN \E delta_pmf \in Range(UniformDraws(config.DELTA_PMF_SHOCK_MIN,
                                                   config.DELTA_PMF_SHOCK_MAX)),
                  delta_m \in Range(UniformDraws(config.DELTA_M_SHOCK_MIN,
                                                 config.DELTA_M_SHOCK_MAX)) :
                  model' = apply_shocks(model, u, delta_pmf, delta_m)
          ELSE model' = apply_shocks(model, u, 0, 0)
    /\ UNCHANGED <<config, np_random, runners>>

\* a market update that stores the grown market size back in the
\* configuration
UpdateMarketWritesConfig ==
    /\ model.pc = "update_market"
    /\ model' = update_market(model)
    /\ config' = [config EXCEPT !.M0_INITIAL = model'.market_size]
    /\ UNCHANGED <<np_random, runners>>

UpdateMarket ==
    /\ model.pc = "update_market"
    /\ model' = update_market(model)
    /\ UNCHANGED <<config, np_random, runners>>

StageConsumerAdoption ==
    /\ AtStage("stage_consumer_adoption")
    /\ \E epsilon_r \in Range(NormalDraws(config.SIGMA_R)) :
          model' = agent_stage(model, [NoDraws EXCEPT !.epsilon_r = epsilon_r])
    /\ UNCHANGED <<config, np_random, runners>>

StageInternalDynamics ==
    /\ AtStage("stage_internal_dynamics")
    /\ model' = agent_stage(model, NoDraws)
    /\ UNCHANGED <<config, np_random, runners>>

StageCapitalUpdate ==
    /\ AtStage("stage_capital_update")
    /\ model' = agent_stage(model, NoDraws)
    /\ UNCHANGED <<config, np_random, runners>>

StagePmfValuationUpdate ==
    /\ AtStage("stage_pmf_valuation_update")
    /\ \E epsilon_p \in Range(NormalDraws(config.SIGMA_PMF)) :
          model' = agent_stage(model, [NoDraws EXCEPT !.epsilon_p = epsilon_p])
    /\ UNCHANGED <<config, np_random, runners>>

StageFunding ==
    /\ AtStage("stage_funding")
    /\ \E u \in Range(RandomDraws) :
          model' = agent_stage(model, [NoDraws EXCEPT !.u = u])
    /\ UNCHANGED <<config, np_random, runners>>

StagePolicy ==
    /\ AtStage("stage_policy")
    /\ model' = agent_stage(model, NoDraws)
    /\ UNCHANGED <<config, np_random, runners>>

FinalCollect ==
    /\ model.pc = "final_collect"
    /\ model' = final_collect(model)
    /\ UNCHANGED <<config, np_random, runners>>

Next ==
    \/ RunModel
    \/ Collect
    \/ ApplyShocks
    \/ UpdateMarket
    \/ StageConsumerAdoption
    \/ StageInternalDynamics
    \/ StageCapitalUpdate
    \/ StagePmfValuationUpdate
    \/ StageFunding
    \/ StagePolicy
    \/ FinalCollect

Spec == Init /\ [][Next]_vars

(***************************************************************************)
(* Seeded runs: two runners built with the same seed in one process.  All  *)
(* draws come from numpy's global generator, which every constructor with  *)
(* a seed re-seeds.  The generator is a fixed sequence of states; a draw   *)
(* reads the current state and moves to the next.                          *)
(***************************************************************************)
\* np.random.seed(seed)
Seeded(seed) == (seed % 30) + 1

\* the generator state after one draw
Nxt(x) == (3 * x) % 31

\* the value a distribution yields in generator state x
Pick(draws, x) == draws[(x % Len(draws)) + 1]

Runners == {1, 2}

Absent == [NewModel(<< >>) EXCEPT !.pc = "absent"]

\* StartupModel(num_startups = n, seed) followed by the entry of
\* run_model(h): seeds the generator, then draws K, B, PMF for each agent
RECURSIVE DrawAgents(_, _, _)
DrawAgents(agents, n, x) ==
    IF Len(agents) = n THEN [agents |-> agents, x |-> x]
    ELSE LET k0 == Pick(K0Draws, x)
             b0 == Pick(B0Draws(k0), Nxt(x))
             pmf0 == Pick(BetaDraws, Nxt(Nxt(x)))
         IN  DrawAgents(Append(agents, NewAgent(k0, b0, pmf0)), n,
                        Nxt(Nxt(Nxt(x))))

\* a handler call whose shock stage draws the two magnitudes before it tests
\* whether the shock occurs
SeededCallDrawsMagnitudesFirst(m, x) ==
    CASE m.pc = "collect" -> [m |-> collect(m), x |-> x]
      [] m.pc = "apply_shocks" ->
           LET u == Pick(RandomDraws, x)
               delta_pmf == Pick(UniformDraws(config.DELTA_PMF_SHOCK_MIN,
                                              config.DELTA_PMF_SHOCK_MAX), Nxt(x))
               delta_m == Pick(UniformDraws(config.DELTA_M_SHOCK_MIN,
                                            config.DELTA_M_SHOCK_MAX), Nxt(Nxt(x)))
           IN  [m |-> apply_shocks(m, u, delta_pmf, delta_m),
                x |-> Nxt(Nxt(Nxt(x)))]
      [] m.pc = "update_market" -> [m |-> update_market(m), x |-> x]
      [] m.pc = "agents" ->
           LET stage == stage_list[m.stage_i]
               a == m.agents[m.agent_i]
               draws ==
                 \/ stage = "stage_consumer_adoption" /\ a.S = 1
                 \/ stage = "stage_pmf_valuation_update" /\ a.S = 1
                 \/ /\ stage = "stage_funding" /\ a.S = 1
                    /\ IsDue(m.steps, config.FUNDING_INTERVAL)
                    /\ is_eligible(a)
               d == [epsilon_r |-> Pick(NormalDraws(config.SIGMA_R), x),
                     epsilon_p |-> Pick(NormalDraws(config.SIGMA_PMF), x),
                     u |-> Pick(RandomDraws, x)]
           IN  [m |-> agent_stage(m, d), x |-> IF draws THEN Nxt(x) ELSE x]

\* one call of a handler at m.pc, its draws taken from generator state x;
\* yields the model and the generator state after it
SeededCall(m, x) ==
    CASE m.pc = "collect" -> [m |-> collect(m), x |-> x]
      [] m.pc = "apply_shocks" ->
           LET u == Pick(RandomDraws, x)
               delta_pmf == Pick(UniformDraws(config.DELTA_PMF_SHOCK_MIN,
                                              config.DELTA_PMF_SHOCK_MAX), Nxt(x))
               delta_m == Pick(UniformDraws(config.DELTA_M_SHOCK_MIN,
                                            config.DELTA_M_SHOCK_MAX), Nxt(Nxt(x)))
           IN  [m |-> apply_shocks(m, u, delta_pmf, delta_m),
                x |-> IF u < config.P_SHOCK THEN Nxt(Nxt(Nxt(x))) ELSE Nxt(x)]
      [] m.pc = "update_market" -> [m |-> update_market(m), x |-> x]
      [] m.pc = "agents" ->
           LET stage == stage_list[m.stage_i]
               a == m.agents[m.agent_i]
               draws ==
                 \/ stage = "stage_consumer_adoption" /\ a.S = 1
                 \/ stage = "stage_pmf_valuation_update" /\ a.S = 1
                 \/ /\ stage = "stage_funding" /\ a.S = 1
                    /\ IsDue(m.steps, config.FUNDING_INTERVAL)
                    /\ is_eligible(a)
               d == [epsilon_r |-> Pick(NormalDraws(config.SIGMA_R), x),
                     epsilon_p |-> Pick(NormalDraws(config.SIGMA_PMF), x),
                     u |-> Pick(RandomDraws, x)]
           IN  [m |-> agent_stage(m, d), x |-> IF draws THEN Nxt(x) ELSE x]

\* StartupModel.step as one call: collect, then all of schedule.step
RECURSIVE SeededStep(_, _)
SeededStep(m, x) ==
    LET r == SeededCall(m, x)
    IN  IF r.m.pc \in {"collect", "final_collect"} THEN r
        ELSE SeededStep(r.m, r.x)

InitSeeded ==
    /\ config \in Configs
    /\ model = Absent
    /\ np_random = 0
    /\ \E seed \in 0..MaxSeed, n \in 1..MaxStartups, h \in 0..MaxHorizon :
          runners = [seed |-> seed, n |-> n, h |-> h,
                     m |-> [r \in Runners |-> Absent]]

\* runner r is constructed with the shared seed and its run is entered
Construct(r) ==
    /\ runners.m[r].pc = "absent"
    /\ LET drawn == DrawAgents(<< >>, runners.n, Seeded(runners.seed))
       IN  /\ runners' = [runners EXCEPT
                            !.m[r] = run_model(NewModel(drawn.agents), runners.h)]
           /\ np_random' = drawn.x
    /\ UNCHANGED <<config, model>>

\* runner r executes one month
Step(r) ==
    /\ runners.m[r].pc = "collect"
    /\ LET res == SeededStep(runners.m[r], np_random)
       IN  /\ runners' = [runners EXCEPT !.m[r] = res.m]
           /\ np_random' = res.x
    /\ UNCHANGED <<config, model>>

\* runner r takes its final snapshot
Finish(r) ==
    /\ runners.m[r].pc = "final_collect"
    /\ runners' = [runners EXCEPT !.m[r] = final_collect(runners.m[r])]
    /\ UNCHANGED <<config, model, np_random>>

NextSeeded ==
    \/ \E r \in Runners : Construct(r)
    \/ \E r \in Runners : Step(r)
    \/ \E r \in Runners : Finish(r)

SpecSeeded == InitSeeded /\ [][NextSeeded]_vars

\* every runner has returned from run_model
AllDone == \A r \in Runners : runners.m[r].pc = "done"

\* run_model is a plain loop in one thread: a call that can proceed does.
\* This is weak fairness of NextSeeded, WF_vars(NextSeeded), written out:
\* NextSeeded is enabled exactly while some runner has not returned.
SpecSeededFair ==
    SpecSeeded /\ ([]<>AllDone \/ []<><<NextSeeded>>_vars)

(***************************************************************************)
(* The shock stage switched off.  Three processes run the same seed, size  *)
(* and horizon under a configuration with shock probability 0 and shock    *)
(* ranges [0,0], each with its own generator: "with" is the program,       *)
(* "skipped" a run whose StagedActivation.step leaves the shock stage out, *)
(* "replaced" a run whose step takes one draw in place of the stage.       *)
(***************************************************************************)
\* configuration c with the shocks switched off
ZeroShock(c) ==
    [c EXCEPT !.P_SHOCK = 0,
              !.DELTA_PMF_SHOCK_MIN = 0, !.DELTA_PMF_SHOCK_MAX = 0,
              !.DELTA_M_SHOCK_MIN = 0, !.DELTA_M_SHOCK_MAX = 0]

Variants == {"with", "skipped", "replaced"}

\* one handler call of variant v
VariantCall(v, m, x) ==
    IF v # "with" /\ m.pc = "apply_shocks"
      THEN [m |-> [m EXCEPT !.pc = "update_market"],
            x |-> IF v = "replaced" THEN Nxt(x) ELSE x]
    ELSE SeededCall(m, x)

\* StartupModel.step of variant v as one call
RECURSIVE VariantStep(_, _, _)
VariantStep(v, m, x) ==
    LET r == VariantCall(v, m, x)
    IN  IF r.m.pc \in {"collect", "final_collect"} THEN r
        ELSE VariantStep(v, r.m, r.x)

InitSkip ==
    /\ config \in {ZeroShock(c) : c \in Configs}
    /\ model = Absent
    /\ np_random = 0
    /\ \E seed \in 0..MaxSeed, n \in 1..MaxStartups, h \in 0..MaxHorizon :
          runners = [seed |-> seed, n |-> n, h |-> h,
                     m |-> [v \in Variants |-> Absent],
                     x |-> [v \in Variants |-> 0]]

\* each process builds StartupModel(n, seed) and enters run_model(h)
SkipConstruct ==
    /\ \A v \in Variants : runners.m[v].pc = "absent"
    /\ LET drawn == DrawAgents(<< >>, runners.n, Seeded(runners.seed))
           built == run_model(NewModel(drawn.agents), runners.h)
       IN  runners' = [runners EXCEPT !.m = [v \in Variants |-> built],
                                      !.x = [v \in Variants |-> drawn.x]]
    /\ UNCHANGED <<config, model, np_random>>

\* each process executes one month
SkipStep ==
    /\ \A v \in Variants : runners.m[v].pc = "collect"
    /\ LET res == [v \in Variants |->
                     VariantStep(v, runners.m[v], runners.x[v])]
       IN  runners' = [runners EXCEPT !.m = [v \in Variants |-> res[v].m],
                                      !.x = [v \in Variants |-> res[v].x]]
    /\ UNCHANGED <<config, model, np_random>>

\* each process takes its final snapshot
SkipFinish ==
    /\ \A v \in Variants : runners.m[v].pc = "final_collect"
    /\ runners' = [runners EXCEPT
                      !.m = [v \in Variants |-> final_collect(runners.m[v])]]
    /\ UNCHANGED <<config, model, np_random>>

NextSkip == SkipConstruct \/ SkipStep \/ SkipFinish

SpecSkip == InitSkip /\ [][NextSkip]_vars

(***************************************************************************)
(* Calls of the StartupModel interface with optional arguments.  An        *)
(* argument the caller leaves out, and Python's None, are Undefined.       *)
(* model is the StartupModel built; runners holds the caller's arguments.  *)
(***************************************************************************)
\* a parameter with a default value: def f(arg = value)
Default(arg, value) == IF arg = Undefined THEN value ELSE arg

\* the generator states numpy can start a process in when nothing seeds it
UnseededStates == {1, 2}

\* StartupModel.__init__(num_startups, seed) in generator state x: seeds
\* only if seed is not None, then draws K, B, PMF for each agent
StartupModel(num_startups, seed, x) ==
    LET x0 == IF seed # Undefined THEN Seeded(seed) ELSE x
        drawn == DrawAgents(<< >>, Default(num_startups, config.NUM_STARTUPS),
                            x0)
    IN  [m |-> NewModel(drawn.agents), x |-> drawn.x]

\* DataCollector.collect raises ZeroDivisionError: the Failure_Rate
\* reporter divides by len(m.schedule.agents)
collect_raises(m) == Len(m.agents) = 0

\* the call has ended with an exception that nothing catches
Raised(m) == [m EXCEPT !.pc = "raised"]

\* the sizing and seed values a caller can pass or leave out
SeedArgs == {Undefined, 0, MaxSeed}

InitApi ==
    /\ config \in Configs
    /\ model = Absent
    /\ np_random \in UnseededStates
    /\ \E num_startups \in {Undefined} \cup 0..MaxStartups,
          seed \in SeedArgs,
          steps \in {Undefined} \cup 0..MaxHorizon :
          runners = [num_startups |-> num_startups, seed |-> seed,
                     steps |-> steps]

\* model = StartupModel(...) with the caller's arguments
ApiConstruct ==
    /\ model.pc = "absent"
    /\ LET built == StartupModel(runners.num_startups, runners.seed, np_random)
       IN  model' = built.m /\ np_random' = built.x
    /\ UNCHANGED <<config, runners>>

\* model.run_model(...) with the caller's argument
ApiRunModel ==
    /\ model.pc = "ready"
    /\ model' = run_model(model, Default(runners.steps, config.TIME_HORIZON))
    /\ UNCHANGED <<config, np_random, runners>>

\* one pass of the loop of run_model: model.step()
ApiStep ==
    /\ model.pc = "collect"
    /\ IF collect_raises(model)
         THEN model' = Raised(model) /\ UNCHANGED np_random
         ELSE LET res == SeededStep(model, np_random)
              IN  model' = res.m /\ np_random' = res.x
    /\ UNCHANGED <<config, runners>>

\* the final data collection of run_model
ApiFinish ==
    /\ model.pc = "final_collect"
    /\ model' = IF collect_raises(model) THEN Raised(model)
                ELSE final_collect(model)
    /\ UNCHANGED <<config, np_random, runners>>

NextApi == ApiConstruct \/ ApiRunModel \/ ApiStep \/ ApiFinish

SpecApi == InitApi /\ [][NextApi]_vars

(***************************************************************************)
(* run_simulation.py: the Monte Carlo driver.  config holds the values of  *)
(* the config module in the driver's process; runners is the driver: its   *)
(* arguments, its loop index, the models built so far and the seed each    *)
(* was constructed with, and the policy_config.json of its directory.      *)
(***************************************************************************)
\* no policy_config.json in the working directory
NoFile == << >>

\* a configuration saved by the parameter GUI (save_config writes every
\* field)
SavedConfig == LeanMarketConfig

\* Python truth value of a seed: None and 0 are false
Truthy(v) == v # Undefined /\ v # 0

\* StartupModel.run_model to its end in generator state x, or to the
\* exception that ends it
RECURSIVE RunToEnd(_, _)
RunToEnd(m, x) ==
    IF m.pc \in {"collect", "final_collect"} /\ collect_raises(m)
      THEN [m |-> Raised(m), x |-> x]
    ELSE IF m.pc = "collect"
      THEN LET r == SeededStep(m, x) IN RunToEnd(r.m, r.x)
    ELSE IF m.pc = "final_collect"
      THEN [m |-> final_collect(m), x |-> x]
    ELSE [m |-> m, x |-> x]

\* the seed run_single_simulation passes to StartupModel
model_seed(run_number, seed) ==
    IF seed # Undefined THEN seed + run_number
    ELSE IF Truthy(config.RANDOM_SEED) THEN config.RANDOM_SEED + run_number
    ELSE Undefined

\* run_single_simulation(run_number, seed) in generator state x
run_single_simulation(run_number, seed, x) ==
    LET built == StartupModel(config.NUM_STARTUPS,
                              model_seed(run_number, seed), x)
    IN  RunToEnd(run_model(built.m, config.TIME_HORIZON), built.x)

\* a loop body that drops a run that raised and goes on to the next
run_monte_carlo_iteration_skips(d, x) ==
    LET run == run_single_simulation(d.i, d.seed, x)
    IN  IF run.m.pc = "raised"
          THEN [d |-> [d EXCEPT !.i = @ + 1], x |-> run.x]
        ELSE [d |-> [d EXCEPT
                       !.models = Append(@, run.m),
                       !.model_seeds = Append(@, model_seed(d.i, d.seed)),
                       !.i = @ + 1],
              x |-> run.x]

\* one pass of the loop of run_monte_carlo: for i in range(num_runs)
run_monte_carlo_iteration(d, x) ==
    LET run == run_single_simulation(d.i, d.seed, x)
    IN  IF run.m.pc = "raised"
          THEN [d |-> [d EXCEPT !.pc = "raised"], x |-> run.x]
        ELSE [d |-> [d EXCEPT
                       !.models = Append(@, run.m),
                       !.model_seeds = Append(@, model_seed(d.i, d.seed)),
                       !.i = @ + 1],
              x |-> run.x]

\* the end of run_monte_carlo: the timing report divides by num_runs, then
\* the list of models is returned
run_monte_carlo_return(d) ==
    IF d.num_runs = 0 THEN [d EXCEPT !.pc = "raised"]
    ELSE [d EXCEPT !.pc = "returned", !.result = d.models]

InitMonteCarlo ==
    /\ \E c \in Configs, n \in 0..MaxStartups, random_seed \in SeedArgs :
          config = [c EXCEPT !.NUM_STARTUPS = n, !.RANDOM_SEED = random_seed]
    /\ model = Absent
    /\ np_random \in UnseededStates
    /\ \E file \in {NoFile, SavedConfig}, num_runs \in 0..MaxRuns,
          seed \in SeedArgs :
          runners = [policy_config_json |-> file,
                     num_runs |-> num_runs, seed |-> seed,
                     i |-> 0, models |-> << >>, model_seeds |-> << >>,
                     pc |-> "loop", result |-> Undefined]

MonteCarloIteration ==
    /\ runners.pc = "loop"
    /\ runners.i < runners.num_runs
    /\ LET after == run_monte_carlo_iteration(runners, np_random)
       IN  runners' = after.d /\ np_random' = after.x
    /\ UNCHANGED <<config, model>>

MonteCarloReturn ==
    /\ runners.pc = "loop"
    /\ runners.i = runners.num_runs
    /\ runners' = run_monte_carlo_return(runners)
    /\ UNCHANGED <<config, model, np_random>>

NextMonteCarlo == MonteCarloIteration \/ MonteCarloReturn

SpecMonteCarlo == InitMonteCarlo /\ [][NextMonteCarlo]_vars

(***************************************************************************)
(* analysis.py                                                             *)
(***************************************************************************)
\* analyze_single_run: the counts and lists it takes from the model
analyze_single_run(m) ==
    [ total_startups |-> Len(m.agents),
      alive_startups |-> Cardinality(Alive(m)),
      dead_startups |-> Cardinality(Dead(m)),
      failure_rate |-> Frac(Cardinality(Dead(m)), Len(m.agents)),
      success_count |-> get_success_count(m),
      top_10_percent_count |-> get_top_10_percent_count(m),
      survival_times |-> get_survival_times(m),
      total_funding |->
          IF Alive(m) # {}
            THEN Sum([i \in Agents(m) |-> m.agents[i].funding_received],
                     Alive(m))
            ELSE 0 ]

\* [t for r in all_results for t in r['survival_times']]
RECURSIVE Pooled(_)
Pooled(all_results) ==
    IF all_results = << >> THEN << >>
    ELSE Pooled(SubSeq(all_results, 1, Len(all_results) - 1))
           \o all_results[Len(all_results)].survival_times

\* analyze_multiple_runs: the per-run results and the pooled survival times
analyze_multiple_runs(models) ==
    LET all_results == [k \in DOMAIN models |-> analyze_single_run(models[k])]
    IN  [ all_results |-> all_results,
          all_survival_times |-> Pooled(all_results) ]

(***************************************************************************)
(* Properties                                                              *)
(***************************************************************************)
IsPrefix(s, t) == Len(s) <= Len(t) /\ s = SubSeq(t, 1, Len(s))

WorldStages == << "apply_shocks", "update_market" >>
EntityStages == SubSeq(stage_list, 3, Len(stage_list))

\* a month is under way: its snapshot is taken and its last stage not yet run
InMonth == model.pc \in {"apply_shocks", "update_market", "agents"}
\* at least one month has completed
MonthCompleted == model.steps > 0

\* C1.  Within one month the calls happen in the mandatory order: first
\* apply_shocks, then update_market, then the six entity stages in the order
\* of the stage list, each stage for all entities before the next stage for
\* any; no entity stage is called before both world stages; and a completed
\* month has called every stage on every entity.
C1_StageOrder ==
    /\ IsPrefix(model.world_calls, WorldStages)
    /\ \A i \in Agents(model) :
          /\ IsPrefix(model.calls[i], EntityStages)
          /\ model.calls[i] # << >> => model.world_calls = WorldStages
          /\ \A j \in Agents(model) :
                Len(model.calls[i]) <= Len(model.calls[j]) + 1
    /\ (MonthCompleted /\ ~InMonth) =>
          /\ model.world_calls = WorldStages
          /\ \A i \in Agents(model) : model.calls[i] = EntityStages

\* C1 witness: the second entity is about to start a stage that the first
\* has already finished, in a month after the first
C1_Witness ==
    /\ model.pc = "agents" /\ model.steps = 1
    /\ model.agent_i = 2
    /\ stage_list[model.stage_i] = "stage_funding"
    /\ Len(model.calls[1]) = Len(model.calls[2]) + 1

\* C2.  Two runners built with the same population size, seed and
\* configuration and run for the same horizon end in the same state with the
\* same snapshots.
C2_Determinism ==
    (\A r \in Runners : runners.m[r].pc = "done")
        => runners.m[1] = runners.m[2]

\* C3.  Once an entity is dead it is dead in every later state.
C3_DeadStaysDead ==
    [][\A i \in Agents(model) :
          model.agents[i].S = 0 => model'.agents[i].S = 0]_vars

\* C3 witness: an entity is dead and a later month has run its stages on it
C3_Witness ==
    \E i \in Agents(model) :
        /\ model.agents[i].S = 0
        /\ model.steps > model.agents[i].death_time + 1

\* C4 as stated: in every state and every snapshot a dead entity has R = 0
\* and K = 0.
C4_DeadHasNoRevenueOrCapital ==
    /\ \A i \in Agents(model) :
          model.agents[i].S = 0 =>
              model.agents[i].R = 0 /\ model.agents[i].K = 0
    /\ \A k \in 1..Len(model.datacollector) : \A i \in Agents(model) :
          LET row == model.datacollector[k].agent_vars[i]
          IN  row.Survival = 0 => row.Revenue = 0 /\ row.Capital = 0

\* the adoption stage has been called on entity i in the month under way
AdoptionCalled(i) == model.pc = "agents" /\ model.calls[i] # << >>

\* C4 amended.  A dead entity has K = 0 in every state and snapshot.  Its R
\* keeps the revenue of the month of death t until the adoption stage of
\* month t+1; from that call on R = 0, and R = 0 in every snapshot taken
\* after month t+1 has completed.
C4_DeadRevenueZeroFromNextAdoption ==
    /\ \A i \in Agents(model) :
          LET a == model.agents[i]
          IN  a.S = 0 =>
                /\ a.K = 0
                /\ model.steps >= a.death_time + 2 => a.R = 0
                /\ (model.steps = a.death_time + 1 /\ AdoptionCalled(i))
                      => a.R = 0
    /\ \A k \in 1..Len(model.datacollector) : \A i \in Agents(model) :
          LET row == model.datacollector[k].agent_vars[i]
          IN  row.Survival = 0 =>
                /\ row.Capital = 0
                /\ (k - 1 >= row.Death_Time + 2) => row.Revenue = 0

\* C4 witness: a snapshot shows a dead entity with the revenue of the month
\* it died in, and a later snapshot shows it with none
C4_Witness ==
    \E i \in Agents(model) :
    \E k \in 1..Len(model.datacollector) :
    \E l \in 1..Len(model.datacollector) :
        /\ k < l
        /\ model.datacollector[k].agent_vars[i].Survival = 0
        /\ model.datacollector[k].agent_vars[i].Revenue > 0
        /\ model.datacollector[l].agent_vars[i].Revenue = 0

\* entity i is the one the stage named is being called on
Calling(stage, i) == AtStage(stage) /\ model.agent_i = i

\* C5.  S turns from alive to dead only in the capital-update stage of that
\* entity, and it does so there exactly when K + R - B + F <= 0; K is then
\* 0 and death_time the step counter.  death_time is undefined while the
\* entity is alive and never changes once set.
C5_DeathOnlyInCapitalUpdate ==
    [][\A i \in Agents(model) :
          LET a == model.agents[i]
              b == model'.agents[i]
              exhausted == a.K + a.R - a.B + a.funding_received <= 0
          IN  /\ (a.S = 1 /\ b.S = 0) =>
                    /\ Calling("stage_capital_update", i)
                    /\ exhausted
                    /\ b.K = 0
                    /\ b.death_time = model.steps
              /\ (a.S = 1 /\ Calling("stage_capital_update", i) /\ exhausted)
                    => b.S = 0
              /\ a.S = 1 => a.death_time = Undefined
              /\ b.S = 1 => b.death_time = Undefined
              /\ a.death_time # Undefined => b.death_time = a.death_time]_vars

\* C5 witness: an entity died in the second month and the run has gone on
C5_Witness ==
    \E i \in Agents(model) :
        /\ model.agents[i].S = 0
        /\ model.agents[i].death_time = 1
        /\ model.steps = 2

\* C6.  K is never negative, and an entity is dead exactly when its K is 0.
C6_CapitalNonNegative ==
    \A i \in Agents(model) :
        /\ model.agents[i].K >= 0
        /\ model.agents[i].S = 0 <=> model.agents[i].K = 0

\* C6 witness: one entity has died, its capital clamped, while another lives
C6_Witness ==
    \E i, j \in Agents(model) :
        /\ model.agents[i].S = 0 /\ model.agents[i].K = 0
        /\ model.agents[j].S = 1 /\ model.agents[j].K > 0

\* C7.  Every entity's PMF is within [0, 1].
C7_PmfBound ==
    \A i \in Agents(model) :
        model.agents[i].PMF >= 0 /\ model.agents[i].PMF <= PMF_ONE

\* C7 witness: under a configuration with shocks, after a completed month a
\* live entity's PMF sits exactly at the upper bound
C7_Witness ==
    /\ config.P_SHOCK > 0
    /\ model.steps >= 1
    /\ \E i \in Agents(model) :
          model.agents[i].PMF = PMF_ONE /\ model.agents[i].S = 1

\* C8.  B >= 0 for every entity in every state, whatever the configuration.
C8_BurnRateNonNegative ==
    \A i \in Agents(model) : model.agents[i].B >= 0

\* C9.  The competition index is within [0, 1]: it is 0 as constructed and
\* afterwards the alive count over the initial population size.
C9_CompetitionIndexRange ==
    LET theta == model.competition_index
    IN  /\ theta.d > 0
        /\ 0 <= theta.n /\ theta.n <= theta.d
        /\ \/ theta = Frac(0, 1)
           \/ theta.d = model.initial_startups

\* C9 witness: some but not all entities have died and the index shows it
C9_Witness ==
    /\ model.competition_index.n > 0
    /\ model.competition_index.n < model.competition_index.d

\* C10.  funding_received turns non-zero, and just_funded true, only in the
\* funding stage of a month with step mod FUNDING_INTERVAL = 0; the policy
\* stage changes B only in a month with step mod POLICY_INTERVAL = 0; in any
\* other month the funding stage leaves funding_received at 0 and the policy
\* stage leaves B as it is.
C10_Cadence ==
    [][\A i \in Agents(model) :
          LET a == model.agents[i]
              b == model'.agents[i]
              funding_month == model.steps % config.FUNDING_INTERVAL = 0
              policy_month == model.steps % config.POLICY_INTERVAL = 0
          IN  /\ (a.funding_received = 0 /\ b.funding_received # 0) =>
                    Calling("stage_funding", i) /\ funding_month
              /\ (~a.just_funded /\ b.just_funded) =>
                    Calling("stage_funding", i) /\ funding_month
              /\ (Calling("stage_funding", i) /\ ~funding_month) =>
                    a.funding_received = 0 /\ b.funding_received = 0
              /\ (Calling("stage_policy", i) /\ a.B # b.B) => policy_month
              /\ (Calling("stage_policy", i) /\ ~policy_month) => a.B = b.B
      ]_vars

\* C10 witness: an entity is funded in a later funding month, after a month
\* in which the funding stage did not act
C10_Witness ==
    /\ config.FUNDING_INTERVAL > 1
    /\ model.steps > 0
    /\ model.steps % config.FUNDING_INTERVAL = 0
    /\ \E i \in Agents(model) :
          model.agents[i].funding_received # 0 /\ model.agents[i].just_funded

\* the horizon of the run under way: months completed plus months to go
Horizon == model.steps + model.loop
\* a run has been entered
Running == model.pc # "ready"

\* C11 as stated: with an interval of horizon + 1 the funding stage funds no
\* entity and the policy stage changes no B in any month of the run.
C11_NeverFires ==
    [][\A i \in Agents(model) :
          LET a == model.agents[i]
              b == model'.agents[i]
          IN  /\ (Running /\ config.FUNDING_INTERVAL = Horizon + 1
                    /\ Calling("stage_funding", i))
                   => b.funding_received = 0 /\ b.just_funded = a.just_funded
              /\ (Running /\ config.POLICY_INTERVAL = Horizon + 1
                    /\ Calling("stage_policy", i))
                   => b.B = a.B
      ]_vars

\* C11 amended.  With an interval of horizon + 1 the stage acts in month 0
\* and in no other month of the run: after month 0 the funding stage funds
\* nobody and the policy stage leaves every B as it is, while in month 0 the
\* policy stage sets B of every live entity to max(0, B + C_reg - S_g +
\* tau R) and funding can be granted.
C11_FiresOnlyInMonthZero ==
    [][\A i \in Agents(model) :
          LET a == model.agents[i]
              b == model'.agents[i]
              impact == config.C_REG - config.S_G + (config.TAU * a.R) \div 100
          IN  /\ (Running /\ config.FUNDING_INTERVAL = Horizon + 1
                    /\ Calling("stage_funding", i) /\ model.steps > 0)
                   => b.funding_received = 0 /\ b.just_funded = a.just_funded
              /\ (Running /\ config.POLICY_INTERVAL = Horizon + 1
                    /\ Calling("stage_policy", i))
                   => IF model.steps = 0 /\ a.S = 1
                      THEN b.B = Max(0, a.B + impact)
                      ELSE b.B = a.B
      ]_vars

\* C11 witness: a run of two months with both intervals at three has
\* finished; an entity was funded in month 0, its burn rate was changed by
\* the policy of month 0 and grown once in month 1
C11_Witness ==
    /\ model.pc = "done" /\ model.steps = 2
    /\ config.FUNDING_INTERVAL = 3 /\ config.POLICY_INTERVAL = 3
    /\ \E i \in Agents(model) :
          /\ model.datacollector[2].agent_vars[i].Funding_Received > 0
          /\ model.datacollector[2].agent_vars[i].Burn_Rate
                # model.datacollector[1].agent_vars[i].Burn_Rate
          /\ model.datacollector[3].agent_vars[i].Funding_Received = 0

\* C12.  run_model(h) on a freshly constructed model terminates; the step
\* counter is 0 at construction, every step() adds exactly 1 to it and
\* nothing else changes it, step() is called h times, and on return the
\* counter is h and the last snapshot is the one taken after the last step.
C12_RunModelStepsExactlyHorizon ==
    /\ [](\A r \in Runners :
            LET m == runners.m[r]
            IN  /\ m.pc # "absent" => m.steps + m.loop = runners.h
                /\ m.pc = "collect" => m.loop > 0
                /\ m.pc = "final_collect" =>
                      m.steps = runners.h /\ Len(m.datacollector) = m.steps
                /\ m.pc = "done" =>
                      /\ m.steps = runners.h
                      /\ m.datacollector[Len(m.datacollector)] = Snapshot(m))
    /\ [][\A r \in Runners :
            LET m == runners.m[r]
                m1 == runners'.m[r]
            IN  /\ (m.pc = "absent" /\ m1.pc # "absent") => m1.steps = 0
                /\ (m.pc = "collect" /\ m1 # m) => m1.steps = m.steps + 1
                /\ (m.pc \notin {"absent", "collect"}) => m1.steps = m.steps
       ]_vars
    /\ \A r \in Runners : <>(runners.m[r].pc = "done")

\* C12 witness: a run of two months and a run of no month have returned
C12_Witness ==
    /\ runners.m[1].pc = "done"
    /\ runners.m[1].steps = runners.h
    /\ runners.h \in {0, 2}

\* C13 as stated: a finished run of N entities over h months has a monthly
\* series of exactly h entries and N final agent records.
C13_SeriesHasHorizonEntries ==
    \A r \in Runners :
        LET m == runners.m[r]
        IN  m.pc = "done" =>
              /\ Len(m.datacollector) = runners.h
              /\ Cardinality(DOMAIN m.datacollector[Len(m.datacollector)]
                                       .agent_vars) = runners.n

\* C13 amended.  A finished run of N entities over h months has a monthly
\* series of exactly h + 1 entries, one taken before each month and one
\* after the last; each of its entries, the last one included, carries
\* exactly N agent records, and the population still has N entities.
C13_SeriesHasHorizonPlusOneEntries ==
    \A r \in Runners :
        LET m == runners.m[r]
        IN  m.pc = "done" =>
              /\ Len(m.datacollector) = runners.h + 1
              /\ \A k \in 1..Len(m.datacollector) :
                    DOMAIN m.datacollector[k].agent_vars = 1..runners.n
              /\ Agents(m) = 1..runners.n

\* C13 witness: a finished run of two entities over three months with four
\* entries in its series
C13_Witness ==
    \E r \in Runners :
        /\ runners.m[r].pc = "done"
        /\ runners.n = 2 /\ runners.h = 3
        /\ Len(runners.m[r].datacollector) = 4

\* the entities that were alive when this month's update_market ran
AliveAtMarketUpdate ==
    {i \in Agents(model) :
        model.agents[i].S = 1 \/ model.agents[i].death_time = model.steps}

\* C14.  The market size is written only by apply_shocks and update_market
\* and the competition index only by update_market; no entity stage call
\* changes either, and the step counter moves, by one, only when the last
\* call of the month's loops has returned.  So throughout the entity stages
\* of a month the competition index is the one update_market left: the
\* entities alive at that point over the initial population.
C14_WorldWrittenOnlyByWorldStages ==
    /\ [][/\ model'.market_size # model.market_size =>
                model.pc \in {"apply_shocks", "update_market"}
          /\ model'.competition_index # model.competition_index =>
                model.pc = "update_market"
          /\ model.pc = "agents" =>
                /\ model'.market_size = model.market_size
                /\ model'.competition_index = model.competition_index
                /\ model'.steps # model.steps =>
                      /\ NextPosition(model).stage_i = 0
                      /\ model'.steps = model.steps + 1
          /\ model.pc # "agents" => model'.steps = model.steps
       ]_vars
    /\ [](model.pc = "agents" =>
            model.competition_index =
                Frac(Cardinality(AliveAtMarketUpdate), model.initial_startups))

\* C14 witness: in a later month an entity has died in the capital update
\* and the funding stage of a survivor is about to read a competition index
\* that still counts it
C14_Witness ==
    /\ AtStage("stage_funding") /\ model.steps >= 1
    /\ model.agents[model.agent_i].S = 1
    /\ model.agents[model.agent_i].R > 0
    /\ \E j \in Agents(model) :
          model.agents[j].S = 0 /\ model.agents[j].death_time = model.steps
    /\ model.competition_index.n > Cardinality(Alive(model))
    /\ model.market_size # config.M0_INITIAL

\* C15.  An alive entity whose B is 0 at the funding stage of a funding
\* month is not funded, whatever its PMF and revenue: after the stage its
\* funding_received is 0 and just_funded is false.
C15_ZeroBurnNeverFunded ==
    [][\A i \in Agents(model) :
          LET a == model.agents[i]
              b == model'.agents[i]
          IN  (/\ Calling("stage_funding", i)
               /\ model.steps % config.FUNDING_INTERVAL = 0
               /\ a.S = 1 /\ a.B = 0)
                 => b.funding_received = 0 /\ ~b.just_funded
      ]_vars

\* C16.  An entity is funded only by its funding stage, and only if it is
\* alive, the month is a funding month, R/B >= alpha (the ratio taken as 0
\* when B = 0) and PMF >= PMF_min hold when the stage is called.  When funded, funding_received is kappa V, V
\* being the valuation stage 6 computed this month from this month's R, PMF
\* and K, and just_funded is set.  Every other call of the funding stage
\* leaves funding_received at 0 and just_funded as it was.
C16_FundingRule ==
    [][\A i \in Agents(model) :
          LET a == model.agents[i]
              b == model'.agents[i]
              funded == ~a.just_funded /\ b.just_funded
              funding_month == model.steps % config.FUNDING_INTERVAL = 0
              ratio_at_least_alpha ==
                  IF a.B > 0
                    THEN 100 * a.R >= config.ALPHA_REVENUE_BURN * a.B
                  ELSE IF a.B < 0
                    THEN 100 * a.R <= config.ALPHA_REVENUE_BURN * a.B
                  ELSE 0 >= config.ALPHA_REVENUE_BURN
          IN  /\ funded =>
                    /\ Calling("stage_funding", i)
                    /\ a.S = 1 /\ b.S = 1
                    /\ funding_month
                    /\ ratio_at_least_alpha
                    /\ a.PMF >= config.PMF_MIN
                    /\ a.V = config.LAMBDA_1 * a.R + config.LAMBDA_2 * a.PMF
                               + config.LAMBDA_3 * a.K
                    /\ b.funding_received = (config.KAPPA * a.V) \div 100
              /\ (a.funding_received = 0 /\ b.funding_received # 0) => funded
              /\ (Calling("stage_funding", i) /\ ~funded) =>
                    b.funding_received = 0 /\ b.just_funded = a.just_funded
      ]_vars

\* C16 witness: in one funding month the stage has funded an entity with a
\* positive revenue and burn rate and has turned down another, alive, whose
\* PMF is below the threshold
C16_Witness ==
    /\ AtStage("stage_policy") /\ model.agent_i = 1
    /\ model.steps % config.FUNDING_INTERVAL = 0
    /\ \E i, j \in Agents(model) :
          /\ model.agents[i].just_funded
          /\ model.agents[i].funding_received
                = (config.KAPPA * model.agents[i].V) \div 100
          /\ model.agents[i].R > 0 /\ model.agents[i].B > 0
          /\ model.agents[j].S = 1
          /\ model.agents[j].PMF < config.PMF_MIN
          /\ model.agents[j].funding_received = 0

\* the number of stages called on entity i in the month under way
StagesCalled(i) == IF model.pc = "agents" THEN Len(model.calls[i]) ELSE 0

\* C17.  Funding granted in the funding stage of month t is held unchanged
\* by every call and world stage up to the capital update of month t+1;
\* that call computes K + R - B + F once (clamped to 0 on death) and resets
\* F to 0.  No other stage changes K, so F is never added in month t nor
\* after month t+1: a non-zero F exists only from the funding stage of a
\* funding month t to the capital update of month t+1.
C17_FundingConsumedOnce ==
    /\ [][\A i \in Agents(model) :
            LET a == model.agents[i]
                b == model'.agents[i]
                K1 == a.K + a.R - a.B + a.funding_received
            IN  /\ (a.funding_received # 0
                      /\ ~Calling("stage_capital_update", i))
                     => b.funding_received = a.funding_received
                /\ (Calling("stage_capital_update", i) /\ a.S = 1) =>
                      /\ b.funding_received = 0
                      /\ b.K = IF K1 <= 0 THEN 0 ELSE K1
                /\ b.K # a.K => Calling("stage_capital_update", i)
       ]_vars
    /\ [](\A i \in Agents(model) :
            model.agents[i].funding_received # 0 =>
                /\ model.agents[i].S = 1
                /\ \/ /\ model.pc = "agents" /\ StagesCalled(i) >= 5
                      /\ model.steps % config.FUNDING_INTERVAL = 0
                   \/ /\ StagesCalled(i) < 3
                      /\ model.steps >= 1
                      /\ (model.steps - 1) % config.FUNDING_INTERVAL = 0)

\* C17 witness: the snapshot taken before this month shows the funding an
\* entity was granted last month; its capital update of this month has
\* added it to K and reset it, and the entity lives on
C17_Witness ==
    /\ model.pc = "agents" /\ model.steps >= 1
    /\ \E i \in Agents(model) :
          LET row == model.datacollector[model.steps + 1].agent_vars[i]
              a == model.agents[i]
          IN  /\ StagesCalled(i) = 3
              /\ row.Funding_Received > 0
              /\ a.funding_received = 0
              /\ a.S = 1
              /\ a.K = row.Capital + a.R - a.B + row.Funding_Received

\* C18.  just_funded, once set in month t, stays set and the entity stays
\* alive through every call up to its internal-dynamics stage of month t+1;
\* that call multiplies B by (1 + delta_g) and clears the flag.  A call of
\* the stage on an entity whose flag is clear applies no growth: it leaves B
\* or applies the low-runway cut.  The flag is set only from the funding
\* stage of a funding month t to the internal-dynamics stage of month t+1.
C18_OneGrowthPerFunding ==
    /\ [][\A i \in Agents(model) :
            LET a == model.agents[i]
                b == model'.agents[i]
                grown == (a.B * (100 + config.DELTA_GROWTH)) \div 100
                cut == (a.B * (100 - config.DELTA_CUT)) \div 100
            IN  /\ (a.just_funded /\ ~Calling("stage_internal_dynamics", i))
                     => b.just_funded /\ b.S = 1
                /\ (a.just_funded /\ Calling("stage_internal_dynamics", i))
                     => a.S = 1 /\ b.B = grown /\ ~b.just_funded
                /\ (~a.just_funded /\ Calling("stage_internal_dynamics", i))
                     => \/ b.B = a.B
                        \/ /\ RunwayBelow(a.runway, config.RUNWAY_LOW_THRESHOLD)
                           /\ a.B > 0 /\ b.B = cut
       ]_vars
    /\ [](\A i \in Agents(model) :
            model.agents[i].just_funded =>
                /\ model.agents[i].S = 1
                /\ \/ /\ model.pc = "agents" /\ StagesCalled(i) >= 5
                      /\ model.steps % config.FUNDING_INTERVAL = 0
                   \/ /\ StagesCalled(i) < 2
                      /\ model.steps >= 1
                      /\ (model.steps - 1) % config.FUNDING_INTERVAL = 0)

\* C18 witness: an entity funded in month 0 had its burn rate grown in
\* month 1, and its internal-dynamics stage of month 2 has not grown it again
C18_Witness ==
    /\ model.pc = "agents" /\ model.steps = 2
    /\ config.DELTA_GROWTH > 0
    /\ \E i \in Agents(model) :
          LET month1 == model.datacollector[2].agent_vars[i]
              month2 == model.datacollector[3].agent_vars[i]
              a == model.agents[i]
          IN  /\ StagesCalled(i) = 2
              /\ month1.Funding_Received > 0
              /\ month2.Funding_Received = 0
              /\ month2.Burn_Rate
                    = (month1.Burn_Rate * (100 + config.DELTA_GROWTH)) \div 100
              /\ month2.Burn_Rate > month1.Burn_Rate
              /\ a.S = 1 /\ ~a.just_funded
              /\ a.B <= month2.Burn_Rate

\* all stages of at least one month have run and no month is under way
AtMonthBoundary ==
    model.pc \in {"collect", "final_collect", "done"} /\ model.steps >= 1

\* the runway of record a is what K and B of a make it: K/B when alive with
\* B > 0, infinite when alive with B = 0, 0 when dead
RunwayIsDerived(a) ==
    IF a.S = 0 THEN ~a.runway.inf /\ a.runway.n = 0
    ELSE IF a.B > 0
      THEN ~a.runway.inf /\ a.runway.n * a.B = a.K * a.runway.d
    ELSE a.B = 0 => a.runway.inf

\* C19 as stated: at every month boundary every entity's runway is K/B,
\* infinite or 0 according to its S and B.
C19_RunwayAtMonthBoundary ==
    AtMonthBoundary => \A i \in Agents(model) : RunwayIsDerived(model.agents[i])

\* C19 amended.  Runway is derived from K and B by the capital update and
\* by nothing else: that call leaves it at K/B when the entity is alive with
\* B > 0, infinite when alive without a positive B, 0 when it died, and no
\* other call changes it.  At a month boundary it is K/B (or infinite, or
\* 0) whenever the month just completed was not a policy month; the policy
\* stage changes B after the capital update and leaves the runway alone.
C19_RunwayDerivedAtCapitalUpdate ==
    /\ [][\A i \in Agents(model) :
            LET a == model.agents[i]
                b == model'.agents[i]
            IN  /\ (Calling("stage_capital_update", i) /\ a.S = 1) =>
                      /\ RunwayIsDerived(b)
                      /\ (b.S = 1 /\ b.B <= 0) => b.runway.inf
                /\ b.runway # a.runway => Calling("stage_capital_update", i)
       ]_vars
    /\ []((AtMonthBoundary
             /\ (model.steps - 1) % config.POLICY_INTERVAL # 0) =>
            \A i \in Agents(model) : RunwayIsDerived(model.agents[i]))
    /\ [](\A i \in Agents(model) :
            model.agents[i].S = 0 => RunwayIsDerived(model.agents[i]))

\* C19 witness: at the boundary after a policy month a live entity with a
\* positive burn rate has a runway that is not K/B
C19_Witness ==
    /\ AtMonthBoundary
    /\ (model.steps - 1) % config.POLICY_INTERVAL = 0
    /\ \E i \in Agents(model) :
          /\ model.agents[i].S = 1 /\ model.agents[i].B > 0
          /\ ~RunwayIsDerived(model.agents[i])

\* the fields of a dead entity that stay as they are
Frozen(a, b) ==
    /\ b.S = 0
    /\ b.K = a.K /\ b.B = a.B /\ b.PMF = a.PMF /\ b.V = a.V
    /\ b.death_time = a.death_time
    /\ b.just_funded = a.just_funded

\* C20.  From its death on, no step of the run (no stage call, shock or
\* policy) changes a dead entity's K, B, PMF, V, death_time or just_funded,
\* and the population keeps all its entities.  Each of the eight stages is
\* defined on a dead entity, whatever the draws, and returns it frozen.
C20_DeadIsFrozen ==
    /\ [][/\ Agents(model') = Agents(model)
          /\ \A i \in Agents(model) :
                model.agents[i].S = 0 =>
                    Frozen(model.agents[i], model'.agents[i])
       ]_vars
    /\ [](\A i \in Agents(model) :
            model.agents[i].S = 0 =>
              \A k \in 1..Len(stage_list) :
              \A u \in Range(RandomDraws) :
              \A epsilon \in Range(NormalDraws(config.SIGMA_R))
                               \cup Range(NormalDraws(config.SIGMA_PMF)) :
                LET a == model.agents[i]
                    d == [epsilon_r |-> epsilon, epsilon_p |-> epsilon,
                          u |-> u]
                    b == CallStage(stage_list[k], a, model, d)
                IN  DOMAIN b = DOMAIN a /\ Frozen(a, b))

\* C20 witness: in a month after an entity's death a shock has just changed
\* the market, and the dead entity is as the snapshot before the month
\* shows it
C20_Witness ==
    /\ model.pc = "update_market"
    /\ config.P_SHOCK > 0
    /\ \E i \in Agents(model) :
          LET row == model.datacollector[model.steps + 1]
              a == model.agents[i]
          IN  /\ a.S = 0 /\ a.death_time < model.steps
              /\ model.market_size # row.Market_Size
              /\ a.PMF = row.agent_vars[i].PMF
              /\ a.PMF \notin {0, PMF_ONE}

(***************************************************************************)
(* Result accessors                                                        *)
(***************************************************************************)
\* C21. get_success_count is the number of entities that are alive and have
\* V >= V_EXIT at the time of the call: a dead entity is not counted
\* whatever its frozen valuation, so the count is at most the alive count.
C21_SuccessCount ==
    LET successful == {i \in Agents(model) :
                          /\ model.agents[i].S = 1
                          /\ model.agents[i].V >= config.V_EXIT}
    IN  /\ get_success_count(model) = Cardinality(successful)
        /\ successful \cap Dead(model) = {}
        /\ get_success_count(model) <= Cardinality(Alive(model))

\* a dead entity whose frozen valuation reaches V_EXIT stands beside an
\* alive entity that is counted
C21_Witness ==
    /\ \E i \in Dead(model) : model.agents[i].V >= config.V_EXIT
    /\ get_success_count(model) = 1
    /\ Cardinality(Alive(model)) = 1

\* the models of the runners that have been constructed, in runner order
ConstructedModels ==
    LET built == {r \in Runners : runners.m[r].pc # "absent"}
    IN  IF built = Runners THEN <<runners.m[1], runners.m[2]>>
        ELSE IF built = {} THEN << >>
        ELSE <<runners.m[CHOOSE r \in built : TRUE]>>

\* C22. get_survival_times holds one entry per dead entity, every dead
\* entity has a death_time, and each entry is the step counter of the month
\* in which the entity died (alive in that month's snapshot, dead in the
\* next), so after k completed months it lies in 0..k-1; the list pooled
\* over the runs has as many entries as there are dead entities in all runs.
C22_SurvivalTimes ==
    /\ \A k \in DOMAIN ConstructedModels :
          LET m == ConstructedModels[k]
              times == get_survival_times(m)
          IN  /\ Len(times) = Cardinality(Dead(m))
              /\ \A i \in Dead(m) :
                    LET t == m.agents[i].death_time
                    IN  /\ t # Undefined
                        /\ t \in 0..(m.steps - 1)
                        /\ \E j \in DOMAIN times : times[j] = t
                        /\ m.datacollector[t + 1].agent_vars[i].Survival = 1
                        /\ t + 2 <= Len(m.datacollector)
                              => m.datacollector[t + 2].agent_vars[i].Survival = 0
              /\ \A j \in DOMAIN times :
                    /\ times[j] \in 0..(m.steps - 1)
                    /\ \E i \in Dead(m) : m.agents[i].death_time = times[j]
    /\ LET summary == analyze_multiple_runs(ConstructedModels)
           dead == [k \in DOMAIN ConstructedModels |->
                      Cardinality(Dead(ConstructedModels[k]))]
       IN  Len(summary.all_survival_times) = Sum(dead, DOMAIN dead)

\* two finished runs whose entities died in different months are pooled
C22_Witness ==
    /\ AllDone
    /\ LET pooled == analyze_multiple_runs(ConstructedModels).all_survival_times
       IN  /\ \E j \in DOMAIN pooled : pooled[j] = 0
           /\ \E j \in DOMAIN pooled : pooled[j] >= 1
    /\ \A r \in Runners : Dead(runners.m[r]) # {}

(***************************************************************************)
(* The Monte Carlo driver                                                  *)
(***************************************************************************)
\* the base seed of a batch: the seed argument, or config.RANDOM_SEED when
\* the caller passes none
BaseSeed == Default(runners.seed, config.RANDOM_SEED)

\* C23. run_monte_carlo(num_runs, seed) keeps one model per run in run
\* order and returns exactly num_runs of them; run i is constructed with
\* seed base seed + i, so the seeds are pairwise distinct and every run is
\* reproducible: it is the same model whatever state the generator was in
\* before the batch.
C23_DerivedSeeds ==
    BaseSeed # Undefined =>
      /\ Len(runners.models) = runners.i
      /\ Len(runners.model_seeds) = runners.i
      /\ \A k \in DOMAIN runners.model_seeds :
            /\ runners.model_seeds[k] = BaseSeed + (k - 1)
            /\ \A j \in DOMAIN runners.model_seeds :
                  j # k => runners.model_seeds[j] # runners.model_seeds[k]
            /\ \A x \in UnseededStates :
                  run_single_simulation(k - 1, runners.seed, x).m
                    = runners.models[k]
      /\ runners.pc = "returned" =>
            /\ runners.result = runners.models
            /\ Len(runners.result) = runners.num_runs

\* C24. A run that raises is fatal to the batch: run_monte_carlo ends with
\* the exception and no result, the failed run is neither skipped (the
\* loop never moves past a run without keeping its model) nor retried
\* (nothing follows the exception), and a returned list holds num_runs
\* models that all ran to their end.
C24_FailedRunIsFatal ==
    /\ [](/\ Len(runners.models) = runners.i
          /\ \A k \in DOMAIN runners.models : runners.models[k].pc = "done"
          /\ runners.pc = "raised" => runners.result = Undefined
          /\ runners.pc = "returned" =>
                /\ runners.result = runners.models
                /\ Len(runners.result) = runners.num_runs
          /\ (runners.num_runs > 0 /\ config.NUM_STARTUPS = 0) =>
                runners.pc # "returned" /\ runners.i = 0)
    /\ [][/\ runners.pc = "loop"
          /\ \/ /\ runners'.pc = "loop"
                /\ runners'.i = runners.i + 1
                /\ Len(runners'.models) = Len(runners.models) + 1
                /\ SubSeq(runners'.models, 1, runners.i) = runners.models
             \/ /\ runners'.pc \in {"raised", "returned"}
                /\ runners'.i = runners.i
                /\ runners'.models = runners.models]_vars

\* the first run of a batch of several has raised and the batch has ended
\* without a result
C24_Witness ==
    /\ runners.num_runs >= 2
    /\ config.NUM_STARTUPS = 0
    /\ runners.pc = "raised"
    /\ runners.i = 0
    /\ runners.result = Undefined

(***************************************************************************)
(* Frame of the configuration                                              *)
(***************************************************************************)
\* C25. No operation of the model, the scheduler or an entity stage writes
\* a configuration parameter: the configuration a run started with is the
\* one every later month reads.
C25_ConfigReadOnly ==
    [][config' = config]_vars

\* a run of several months, with funding and policy rounds, has ended under
\* one of the configurations it can start with
C25_Witness ==
    /\ model.pc = "done"
    /\ model.steps >= 2
    /\ model.market_size # config.M0_INITIAL
    /\ config \in Configs

(***************************************************************************)
(* Sizing arguments                                                        *)
(***************************************************************************)
\* C26. The sizing parameters are never defaulted: a StartupModel built
\* without a population size, and a run_model called without a horizon, end
\* with an error instead of proceeding with a built-in value.
C26_SizingNeverDefaulted ==
    /\ runners.num_startups = Undefined => model.pc \in {"absent", "raised"}
    /\ runners.steps = Undefined =>
          model.pc \in {"absent", "ready", "raised"}

(***************************************************************************)
(* Configuration priority                                                  *)
(***************************************************************************)
\* C27. When a saved policy_config.json exists the runs of run_simulation
\* use the values saved in it (their population and their starting market
\* size are the saved ones); only without the file do they use the values
\* of config.py.
C27_SavedConfigTakesPriority ==
    LET file == runners.policy_config_json
        used == IF file # NoFile THEN file ELSE config
    IN  \A k \in DOMAIN runners.models :
          LET m == runners.models[k]
          IN  /\ Len(m.agents) = used.NUM_STARTUPS
              /\ m.datacollector[1].Market_Size = used.M0_INITIAL

(***************************************************************************)
(* Populations without an alive entity                                     *)
(***************************************************************************)
\* C28. A population in which every entity is dead never raises: step()
\* completes, the snapshot taken of such a population records 0 for
\* Avg_Valuation, Avg_PMF and Avg_Revenue, the market update of that month
\* leaves theta at 0, and get_top_10_percent_count returns 0.
C28_DegeneratePopulationNeverRaises ==
    Alive(model) = {} =>
      /\ model.pc # "raised"
      /\ get_top_10_percent_count(model) = 0
      /\ \A k \in DOMAIN model.datacollector :
            LET row == model.datacollector[k]
            IN  row.Alive_Startups = 0 =>
                  /\ row.Avg_Valuation = Frac(0, 1)
                  /\ row.Avg_PMF = Frac(0, 1)
                  /\ row.Avg_Revenue = Frac(0, 1)
                  /\ k <= model.steps => model.competition_index.n = 0

(***************************************************************************)
(* Revenue                                                                 *)
(***************************************************************************)
\* C29. Every entity has R >= 0 in every reachable state; the adoption
\* stage leaves an alive entity with R >= 0 whatever noise is drawn and
\* sets the R of a dead entity to 0.
C29_RevenueNonNegative ==
    /\ [](\A i \in Agents(model) : model.agents[i].R >= 0)
    /\ [][\A i \in Agents(model) :
            Calling("stage_consumer_adoption", i) =>
              /\ model'.agents[i].R >= 0
              /\ model.agents[i].S = 0 => model'.agents[i].R = 0]_vars

\* the adoption stage has just run on an alive entity and drawn the
\* negative noise: its R is 0 where the positive noise gives revenue
C29_Witness ==
    \E i \in Alive(model) :
       /\ StagesCalled(i) = 1
       /\ config.SIGMA_R > 0
       /\ model.agents[i].R = 0
       /\ stage_consumer_adoption(model.agents[i], model, config.SIGMA_R).R > 0
       /\ stage_consumer_adoption(model.agents[i], model, -config.SIGMA_R).R = 0

(***************************************************************************)
(* Burn-rate adjustment                                                    *)
(***************************************************************************)
\* C30. A call of internal dynamics makes at most one adjustment of B: a
\* just-funded entity gets the growth B * (1 + delta_g) and no cut, even
\* with its runway below the threshold; an entity that is not just funded
\* gets the cut B * (1 - delta_c) exactly when its runway is below the
\* threshold and B > 0; in every other case, and for a dead entity, B is
\* unchanged.
C30_OneBurnAdjustment ==
    [][\A i \in Agents(model) :
         Calling("stage_internal_dynamics", i) =>
           LET a == model.agents[i]
               low == RunwayBelow(a.runway, config.RUNWAY_LOW_THRESHOLD)
               B_after == model'.agents[i].B
           IN  IF a.S = 1 /\ a.just_funded
                 THEN B_after = (a.B * (100 + config.DELTA_GROWTH)) \div 100
               ELSE IF a.S = 1 /\ low /\ a.B > 0
                 THEN B_after = (a.B * (100 - config.DELTA_CUT)) \div 100
               ELSE B_after = a.B]_vars

\* internal dynamics has just run on an entity that was funded last month
\* and whose runway is below the threshold: its B is the month's starting
\* burn rate grown once, not cut
C30_Witness ==
    \E i \in Alive(model) :
       LET a == model.agents[i]
           B_before == model.datacollector[Len(model.datacollector)]
                         .agent_vars[i].Burn_Rate
           grown == (B_before * (100 + config.DELTA_GROWTH)) \div 100
       IN  /\ StagesCalled(i) = 2
           /\ a.funding_received > 0
           /\ RunwayBelow(a.runway, config.RUNWAY_LOW_THRESHOLD)
           /\ B_before > 0
           /\ a.B = grown
           /\ grown # B_before
           /\ (grown * (100 - config.DELTA_CUT)) \div 100 # grown

(***************************************************************************)
(* World stages                                                            *)
(***************************************************************************)
\* C31. The shock stage either changes no PMF and not the market size (no
\* shock this month), or applies one delta_pmf and one delta_m of the
\* configured ranges to the whole population: every alive entity's PMF
\* becomes clip(PMF + delta_pmf, 0, 1) for the same delta_pmf, every dead
\* entity's PMF is unchanged, and M becomes max(0, M * (1 + delta_m)).
C31_OneShockForAll ==
    [][model.pc = "apply_shocks" =>
         \/ /\ model'.agents = model.agents
            /\ model'.market_size = model.market_size
         \/ /\ config.P_SHOCK > 0
            /\ \E delta_pmf \in config.DELTA_PMF_SHOCK_MIN
                                  ..config.DELTA_PMF_SHOCK_MAX,
                  delta_m \in config.DELTA_M_SHOCK_MIN
                                ..config.DELTA_M_SHOCK_MAX :
                  /\ \A i \in Alive(model) :
                        model'.agents[i].PMF
                          = clip(model.agents[i].PMF + delta_pmf, 0, PMF_ONE)
                  /\ \A i \in Dead(model) :
                        model'.agents[i].PMF = model.agents[i].PMF
                  /\ model'.market_size
                        = Max(0, (model.market_size * (100 + delta_m)) \div 100)]_vars

\* a shock has just moved the PMF of two alive entities and the market size
\* away from the values recorded at the start of the month
C31_Witness ==
    /\ model.pc = "update_market"
    /\ Cardinality(Alive(model)) = 2
    /\ LET row == model.datacollector[Len(model.datacollector)]
       IN  /\ \A i \in Alive(model) :
                 model.agents[i].PMF # row.agent_vars[i].PMF
           /\ model.market_size # row.Market_Size

\* the variables of two runs agree: entities, world, step counter, recorded
\* series and position
SameRun(a, b) ==
    /\ a.agents = b.agents
    /\ a.market_size = b.market_size
    /\ a.competition_index = b.competition_index
    /\ a.steps = b.steps
    /\ a.datacollector = b.datacollector
    /\ a.pc = b.pc

\* C32 as stated: with the shocks switched off, the run is state-for-state
\* identical to the run with the same seed that skips the shock stage.
C32_SameAsSkipped ==
    SameRun(runners.m["with"], runners.m["skipped"])

\* C32 amended.  With the shocks switched off the shock stage changes no
\* variable of the model and takes exactly one draw from the generator each
\* month: the run is state-for-state identical to the run with the same
\* seed in which the stage is replaced by one draw.  With the run that
\* skips the stage it shares the construction, the first snapshot, the
\* step counter and the market size of every month.
C32_SameAsReplacedByOneDraw ==
    /\ SameRun(runners.m["with"], runners.m["replaced"])
    /\ runners.x["with"] = runners.x["replaced"]
    /\ LET a == runners.m["with"]
           b == runners.m["skipped"]
       IN  /\ a.steps = b.steps /\ a.pc = b.pc
           /\ a.market_size = b.market_size
           /\ Len(a.datacollector) = Len(b.datacollector)
           /\ \A k \in DOMAIN a.datacollector :
                 a.datacollector[k].Market_Size = b.datacollector[k].Market_Size
           /\ a.datacollector # << >> => a.datacollector[1] = b.datacollector[1]

\* the runs have ended after two months or more and the run that skips the
\* stage has other entity states than the program
C32_Witness ==
    /\ \A v \in Variants : runners.m[v].pc = "done"
    /\ runners.m["with"].steps >= 2
    /\ runners.m["with"].agents # runners.m["skipped"].agents
    /\ runners.m["with"].agents = runners.m["replaced"].agents

\* M * (1 + g_m), the market growth of one month
Grown(M) == (M * (100 + config.GROWTH_RATE_M)) \div 100

\* M0 * (1 + g_m)^k, one month at a time
RECURSIVE GrownTimes(_, _)
GrownTimes(M, k) == IF k = 0 THEN M ELSE Grown(GrownTimes(M, k - 1))

\* the market size after a month that started with M_old: grown once,
\* after the shock adjustment if a shock occurred
AfterOneMonth(M_old, M_new) ==
    \/ M_new = Grown(M_old)
    \/ /\ config.P_SHOCK > 0
       /\ \E delta_m \in config.DELTA_M_SHOCK_MIN..config.DELTA_M_SHOCK_MAX :
             M_new = Grown(Max(0, (M_old * (100 + delta_m)) \div 100))

\* C33. The market grows exactly once per month, after any shock of that
\* month: each market update sets M to M * (1 + g_m), every recorded market
\* size follows from the previous one by one shock adjustment at most and
\* one growth, the market size after k months without shock event is
\* M0 * (1 + g_m)^k, and with g_m >= -1 it is never negative.
C33_MarketGrowsOncePerMonth ==
    /\ [][model.pc = "update_market" =>
             model'.market_size = Grown(model.market_size)]_vars
    /\ [](LET rows == model.datacollector
          IN  /\ \A k \in DOMAIN rows :
                    /\ k = 1 => rows[k].Market_Size = config.M0_INITIAL
                    /\ k > 1 => AfterOneMonth(rows[k - 1].Market_Size,
                                              rows[k].Market_Size)
              /\ (model.pc \in {"collect", "final_collect"} /\ model.steps >= 1)
                    => AfterOneMonth(rows[Len(rows)].Market_Size,
                                     model.market_size)
              /\ (config.P_SHOCK = 0 /\ ~InMonth) =>
                    model.market_size
                      = GrownTimes(config.M0_INITIAL, model.steps)
              /\ config.GROWTH_RATE_M >= -100 => model.market_size >= 0)

\* a run of two months or more has ended, one of its months with a shock to
\* the market and one without
C33_Witness ==
    LET rows == model.datacollector
    IN  /\ model.pc = "done"
        /\ \E k \in DOMAIN rows :
              k > 1 /\ rows[k].Market_Size # Grown(rows[k - 1].Market_Size)
        /\ \E k \in DOMAIN rows :
              /\ k > 1 /\ rows[k].Market_Size = Grown(rows[k - 1].Market_Size)
              /\ rows[k].Market_Size # rows[k - 1].Market_Size

\* C34. The competition index the entity stages of a month read is the
\* number of entities alive at the end of the previous month (the alive
\* count this month's snapshot recorded) over the initial population size,
\* which is 1 in the first month: update_market sets it from the entities
\* alive at that moment, and an entity that dies in the current month is
\* still counted until the market update of the next month.
C34_ThetaFromPreviousMonth ==
    /\ [][model.pc = "update_market" =>
             model'.competition_index
               = Frac(Cardinality(Alive(model)), model.initial_startups)]_vars
    /\ [](model.pc = "agents" =>
            LET row == model.datacollector[Len(model.datacollector)]
                theta == model.competition_index
            IN  /\ theta = Frac(row.Alive_Startups, model.initial_startups)
                /\ model.steps = 0 => theta.n = theta.d
                /\ theta.n = Cardinality(AliveAtMarketUpdate))

\* in a month after the first, with one entity already dead, another has
\* died and is still counted in the index the later stages read
C34_Witness ==
    /\ model.pc = "agents"
    /\ model.steps >= 1
    /\ \E i \in Dead(model) : model.agents[i].death_time = model.steps
    /\ \E i \in Dead(model) : model.agents[i].death_time < model.steps
    /\ model.competition_index.n = 1
    /\ Alive(model) = {}

C36_PopulationAccounting ==
    LET rows == model.datacollector
        N == model.initial_startups
        result == analyze_single_run(model)
    IN  /\ Len(model.agents) = N
        /\ \A k \in DOMAIN rows :
              /\ rows[k].Alive_Startups + rows[k].Dead_Startups = N
              /\ DOMAIN rows[k].agent_vars = 1..N
              /\ rows[k].Failure_Rate = Frac(rows[k].Dead_Startups, N)
              /\ k > 1 =>
                    /\ rows[k].Alive_Startups <= rows[k - 1].Alive_Startups
                    /\ rows[k].Failure_Rate.n * rows[k - 1].Failure_Rate.d
                          >= rows[k - 1].Failure_Rate.n * rows[k].Failure_Rate.d
        /\ result.total_startups = N
        /\ result.alive_startups + result.dead_startups = N
        /\ result.failure_rate = Frac(result.dead_startups, N)

\* a finished run recorded the population dying out one entity at a time
C36_Witness ==
    LET rows == model.datacollector
    IN  /\ model.pc = "done"
        /\ \E k \in DOMAIN rows :
              /\ k > 2
              /\ rows[k].Alive_Startups < rows[k - 1].Alive_Startups
              /\ rows[k - 1].Alive_Startups < rows[k - 2].Alive_Startups
              /\ rows[k].Failure_Rate = Frac(2, 2)

\* C37. The recorded competition index lags the recorded alive count by
\* one snapshot: snapshot 0 records Competition_Index 0 with every entity
\* alive, and for k >= 1 the Competition_Index of snapshot k is
\* Alive_Startups of snapshot k-1 over the initial population size.
C37_RecordedThetaLags ==
    LET rows == model.datacollector
        N == model.initial_startups
    IN  \A k \in DOMAIN rows :
          /\ k = 1 => /\ rows[k].Competition_Index.n = 0
                      /\ rows[k].Alive_Startups = N
          /\ k > 1 => rows[k].Competition_Index
                         = Frac(rows[k - 1].Alive_Startups, N)

\* a snapshot records fewer alive entities than its competition index
\* counts, and the next one records that count in its index
C37_Witness ==
    LET rows == model.datacollector
    IN  \E k \in DOMAIN rows :
          /\ k > 2
          /\ rows[k - 1].Alive_Startups < rows[k - 1].Competition_Index.n
          /\ rows[k].Competition_Index.n = rows[k - 1].Alive_Startups
          /\ rows[k].Competition_Index.n > 0

\* C38. While the competition index is 1 (no entity had died when the
\* month began) the expected revenue is 0: the adoption stage leaves an
\* alive entity with max(0, noise), whatever the market size and its PMF;
\* with zero revenue noise every entity has R = 0 as long as no entity has
\* died.
C38_NoRevenueWithoutDeaths ==
    /\ [][\A i \in Agents(model) :
            (/\ Calling("stage_consumer_adoption", i)
             /\ model.agents[i].S = 1
             /\ model.competition_index.n = model.competition_index.d) =>
               \E epsilon_r \in Range(NormalDraws(config.SIGMA_R)) :
                  model'.agents[i].R = Max(0, epsilon_r)]_vars
    /\ []((config.SIGMA_R = 0 /\ Dead(model) = {}) =>
            \A i \in Agents(model) : model.agents[i].R = 0)

\* in a month after the first, with a grown market and nobody dead, the
\* adoption stage has left an entity with exactly the positive noise
C38_Witness ==
    /\ model.steps >= 1
    /\ Dead(model) = {}
    /\ config.SIGMA_R > 0
    /\ model.market_size > config.M0_INITIAL
    /\ \E i \in Agents(model) :
          /\ StagesCalled(i) = 1
          /\ model.agents[i].PMF > 0
          /\ model.agents[i].R = config.SIGMA_R

\* C39. At a month boundary an entity's funding_received is non-zero only
\* if the month just completed was a funding month in which that entity was
\* funded; so the Total_Funding of snapshot k is non-zero only if
\* (k - 1) mod FUNDING_INTERVAL = 0, and the total_funding that
\* analyze_single_run reports after run_model(h) is 0 whenever
\* (h - 1) mod FUNDING_INTERVAL # 0.
C39_FundingOnlyAfterFundingMonth ==
    LET rows == model.datacollector
        FundingMonth(t) == t >= 0 /\ IsDue(t, config.FUNDING_INTERVAL)
    IN  /\ model.pc \in {"collect", "final_collect", "done"} =>
              \A i \in Agents(model) :
                  model.agents[i].funding_received # 0 =>
                      /\ FundingMonth(model.steps - 1)
                      /\ model.agents[i].just_funded
                      /\ model.agents[i].S = 1
        /\ \A k \in DOMAIN rows :
              /\ rows[k].Total_Funding # 0 => FundingMonth(k - 2)
              /\ \A i \in DOMAIN rows[k].agent_vars :
                    rows[k].agent_vars[i].Funding_Received # 0
                        => FundingMonth(k - 2)
        /\ model.pc = "done" =>
              (~FundingMonth(model.steps - 1)
                   => analyze_single_run(model).total_funding = 0)

\* with rounds every second month or rarer, a finished run whose last month
\* was a funding month reports the amount raised in it, and recorded a
\* funded snapshot followed by one with Total_Funding 0
C39_Witness ==
    LET rows == model.datacollector
    IN  /\ model.pc = "done"
        /\ config.FUNDING_INTERVAL >= 2
        /\ model.steps >= 3
        /\ analyze_single_run(model).total_funding > 0
        /\ \E k \in DOMAIN rows :
              /\ k > 1
              /\ rows[k - 1].Total_Funding > 0
              /\ rows[k].Total_Funding = 0
              /\ rows[k].Alive_Startups > 0

(***************************************************************************)
(* app.py: the separate StartupFundingModel.  Amounts are Python floats;   *)
(* they are modelled as binary floating-point numbers with a significand   *)
(* of MantissaBits bits (a double has 53) and round-half-to-even, written  *)
(* as multiples of the smallest amount.  model is the StartupFundingModel  *)
(* at its allocate_credit stage, after bank_update and prep_startups;      *)
(* runners is the position inside allocate_credit and the record of the    *)
(* last call of allocate_loans_to_startups.                                *)
(***************************************************************************)
MantissaBits == 3

\* the spacing of the floating-point numbers at x
RECURSIVE Quantum(_)
Quantum(x) == IF x < 2 ^ MantissaBits THEN 1 ELSE 2 * Quantum(x \div 2)

\* the float nearest to x, ties to the even significand
fl(x) ==
    LET a == IF x < 0 THEN -x ELSE x
        q == Quantum(a)
        lo == (a \div q) * q
        r == a - lo
        nearest == IF 2 * r < q THEN lo
                   ELSE IF 2 * r > q THEN lo + q
                   ELSE IF (a \div q) % 2 = 0 THEN lo ELSE lo + q
    IN  IF x < 0 THEN -nearest ELSE nearest

\* StartupAgent.receive_debt.  The test against request_amount * 0.6 is
\* made on the exact product.
receive_debt(s, amount) ==
    LET received == fl(s.received_debt + amount)
    IN  [s EXCEPT !.received_debt = received,
                  !.funded = @ \/ (received * 10 >= s.request_amount * 6)]

\* StartupAgent.receive_equity
receive_equity(s, amount) ==
    LET received == fl(s.received_equity + amount)
    IN  [s EXCEPT !.received_equity = received,
                  !.funded = @ \/ (fl(s.received_debt + received) * 10
                                       >= s.request_amount * 6)]

\* sorted_startups without reverse=True
sorted_startups_ascending(startup_list) ==
    LET before(i, j) ==
            \/ startup_list[i].funding_score < startup_list[j].funding_score
            \/ /\ startup_list[i].funding_score = startup_list[j].funding_score
               /\ i < j
        rank(i) == 1 + Cardinality({j \in DOMAIN startup_list : before(j, i)})
    IN  [k \in DOMAIN startup_list |->
            CHOOSE i \in DOMAIN startup_list : rank(i) = k]

\* sorted(startup_list, key=funding_score, reverse=True): the positions of
\* the list in the order of the sorted list (the sort is stable)
sorted_startups(startup_list) ==
    LET before(i, j) ==
            \/ startup_list[i].funding_score > startup_list[j].funding_score
            \/ /\ startup_list[i].funding_score = startup_list[j].funding_score
               /\ i < j
        rank(i) == 1 + Cardinality({j \in DOMAIN startup_list : before(j, i)})
    IN  [k \in DOMAIN startup_list |->
            CHOOSE i \in DOMAIN startup_list : rank(i) = k]

\* the for loop of allocate_loans_to_startups from position k of the sorted
\* list; served lists the loans in the order they are given
RECURSIVE allocate_loop(_, _, _)
allocate_loop(order, k, st) ==
    IF k > Len(order) \/ st.remaining <= 0 THEN st
    ELSE
      LET i == order[k]
          demand == st.startups[i].request_amount
          give == Min(demand, st.remaining)
      IN  IF give > 0
            THEN allocate_loop(order, k + 1,
                   [ startups |-> [st.startups EXCEPT
                                      ![i] = receive_debt(@, give)],
                     remaining |-> fl(st.remaining - give),
                     allocated |-> fl(st.allocated + give),
                     served |-> Append(st.served,
                                  [ startup |-> i, give |-> give,
                                    remaining |-> st.remaining ]) ])
            ELSE allocate_loop(order, k + 1, st)

\* BankAgent.allocate_loans_to_startups: the bank and the startups after
\* the call, the value returned and the loans given
allocate_loans_to_startups(bank, startup_list) ==
    IF bank.available_to_lend <= 0
      THEN [ bank |-> bank, startups |-> startup_list, allocated |-> 0,
             served |-> << >> ]
    ELSE
      LET st == allocate_loop(sorted_startups(startup_list), 1,
                   [ startups |-> startup_list,
                     remaining |-> bank.available_to_lend,
                     allocated |-> 0,
                     served |-> << >> ])
      IN  [ bank |-> [bank EXCEPT
                         !.loans_given = fl(@ + st.allocated)],
            startups |-> st.startups,
            allocated |-> st.allocated,
            served |-> st.served ]

\* the equity loop of allocate_credit from position k of the sorted list
RECURSIVE equity_loop(_, _, _)
equity_loop(order, k, st) ==
    IF k > Len(order) \/ st.remaining <= 0 THEN st
    ELSE
      LET i == order[k]
          s == st.startups[i]
          needed == Max(0, fl(s.request_amount
                                - fl(s.received_debt + s.received_equity)))
          give == Min(needed, st.remaining)
      IN  IF give > 0
            THEN equity_loop(order, k + 1,
                   [ startups |-> [st.startups EXCEPT
                                      ![i] = receive_equity(@, give)],
                     remaining |-> fl(st.remaining - give) ])
            ELSE equity_loop(order, k + 1, st)

\* the amounts a bank can have to lend, a startup can request and the
\* investors can supply, before rounding to a float
AvailableValues == {0, 14, 22}
RequestValues == {3, 24}
SupplyValues == {0, 5}
ScoreValues == {0, 1}

Banks == [ available_to_lend : {fl(v) : v \in AvailableValues},
           loans_given : {0} ]

Startups == [ funding_score : ScoreValues,
              request_amount : {fl(v) : v \in RequestValues},
              received_debt : {0},
              received_equity : {0},
              funded : {FALSE},
              alive : BOOLEAN ]

\* no call of allocate_loans_to_startups was made yet
NoCall == [ bank |-> 0, available_to_lend |-> 0, before |-> << >>,
            after |-> << >>, allocated |-> 0, served |-> << >> ]

\* the banks have run bank_update and the startups request_funding and
\* compute_funding_score.  allocate_loans_to_startups takes any list of
\* startups; inside a StartupFundingModel the scores of one month are equal.
InitBank ==
    /\ config = DefaultConfig
    /\ np_random = 0
    /\ \E nb \in 1..2, ns \in 1..MaxStartups :
         \E banks \in [1..nb -> Banks], startups \in [1..ns -> Startups],
            domestic_supply \in {fl(v) : v \in SupplyValues},
            foreign_supply \in {fl(v) : v \in SupplyValues} :
            model = [ banks |-> banks, startups |-> startups,
                      domestic_supply |-> domestic_supply,
                      foreign_supply |-> foreign_supply,
                      liquidity |-> fl(40),
                      sentiment_index |-> 0 ]
    /\ runners = [ pc |-> "banks", b |-> 1, total_allocated |-> 0,
                   call |-> NoCall ]

\* allocate_credit, one pass of "for b in self.banks"
AllocateLoans ==
    /\ runners.pc = "banks"
    /\ runners.b <= Len(model.banks)
    /\ LET b == runners.b
           result == allocate_loans_to_startups(model.banks[b], model.startups)
       IN  /\ model' = [model EXCEPT !.banks[b] = result.bank,
                                     !.startups = result.startups]
           /\ runners' =
                 [ pc |-> "banks", b |-> b + 1,
                   total_allocated |->
                       fl(runners.total_allocated + result.allocated),
                   call |-> [ bank |-> b,
                              available_to_lend |->
                                  model.banks[b].available_to_lend,
                              before |-> model.startups,
                              after |-> result.startups,
                              allocated |-> result.allocated,
                              served |-> result.served ] ]
    /\ UNCHANGED <<config, np_random>>

\* allocate_credit after the banks: equity, liquidity and sentiment
\* (sentiment_index is counted in tenths)
AllocateEquity ==
    /\ runners.pc = "banks"
    /\ runners.b > Len(model.banks)
    /\ LET total_equity == fl(model.domestic_supply + model.foreign_supply)
           st == IF total_equity > 0
                   THEN equity_loop(sorted_startups(model.startups), 1,
                          [ startups |-> model.startups,
                            remaining |-> total_equity ])
                   ELSE [ startups |-> model.startups,
                          remaining |-> total_equity ]
           liquidity == fl(fl(model.liquidity - runners.total_allocated)
                             + total_equity)
           successes == Cardinality({i \in DOMAIN st.startups :
                           st.startups[i].funded /\ st.startups[i].alive})
       IN  model' = [model EXCEPT
                        !.startups = st.startups,
                        !.liquidity = Max(0, liquidity),
                        !.sentiment_index = @ + successes]
    /\ runners' = [runners EXCEPT !.pc = "done"]
    /\ UNCHANGED <<config, np_random>>

NextBank == AllocateLoans \/ AllocateEquity

SpecBank == InitBank /\ [][NextBank]_vars

\* the exact sum of the loans of one call
RECURSIVE SumGives(_)
SumGives(served) ==
    IF served = << >> THEN 0
    ELSE SumGives(SubSeq(served, 1, Len(served) - 1))
           + served[Len(served)].give

\* C40 as stated: one call of a bank's allocate_loans_to_startups serves
\* the startups in descending funding_score order, gives each the smaller
\* of its request_amount and the remaining capacity, and allocates in
\* total no more than the bank's available_to_lend; a bank with
\* available_to_lend <= 0 allocates nothing and changes no startup.
C40_BankAllocationWithinCapacity ==
    LET c == runners.call
        served == c.served
        score(k) == c.before[served[k].startup].funding_score
        Served == {served[k].startup : k \in DOMAIN served}
    IN  (runners.pc \in {"banks", "done"} /\ c.bank # 0) =>
          /\ c.available_to_lend <= 0 =>
                c.allocated = 0 /\ served = << >> /\ c.after = c.before
          /\ \A k, l \in DOMAIN served :
                k < l => /\ score(k) >= score(l)
                         /\ served[k].startup # served[l].startup
          /\ \A k \in DOMAIN served :
                LET i == served[k].startup
                IN  /\ served[k].give
                          = Min(c.before[i].request_amount, served[k].remaining)
                    /\ c.after[i].received_debt
                          = fl(c.before[i].received_debt + served[k].give)
                    /\ \A j \in DOMAIN c.before :
                          j \notin Served =>
                              c.before[j].funding_score <= score(k)
          /\ \A j \in DOMAIN c.before :
                j \notin Served => c.after[j] = c.before[j]
          /\ SumGives(served) <= c.available_to_lend
          /\ c.allocated <= c.available_to_lend

\* C40. One call of a bank's allocate_loans_to_startups serves the startups
\* in descending funding_score order (equal scores in list order) and gives
\* each the smaller of its request_amount and the remaining capacity, which
\* never drops below 0; a bank with available_to_lend <= 0 allocates
\* nothing and changes no startup.  The total it allocates exceeds
\* available_to_lend by no more than the rounding of the float arithmetic:
\* half a spacing of the floats per loan for the sum of the loans, and the
\* same again, at the total, for the value returned.
C40_BankAllocationUpToRounding ==
    LET c == runners.call
        served == c.served
        A == c.available_to_lend
        score(k) == c.before[served[k].startup].funding_score
        Served == {served[k].startup : k \in DOMAIN served}
    IN  (runners.pc \in {"banks", "done"} /\ c.bank # 0) =>
          /\ A <= 0 => c.allocated = 0 /\ served = << >> /\ c.after = c.before
          /\ \A k, l \in DOMAIN served :
                k < l => /\ \/ score(k) > score(l)
                            \/ /\ score(k) = score(l)
                               /\ served[k].startup < served[l].startup
                         /\ served[k].startup # served[l].startup
          /\ \A k \in DOMAIN served :
                LET i == served[k].startup
                IN  /\ served[k].remaining > 0
                    /\ served[k].give
                          = Min(c.before[i].request_amount, served[k].remaining)
                    /\ fl(served[k].remaining - served[k].give) >= 0
                    /\ k < Len(served) =>
                          served[k + 1].remaining
                              = fl(served[k].remaining - served[k].give)
                    /\ c.after[i].received_debt
                          = fl(c.before[i].received_debt + served[k].give)
                    /\ \A j \in DOMAIN c.before :
                          j \notin Served =>
                              c.before[j].funding_score <= score(k)
          /\ served # << >> => served[1].remaining = A
          /\ \A j \in DOMAIN c.before :
                j \notin Served => c.after[j] = c.before[j]
          /\ 2 * (SumGives(served) - A) <= Len(served) * Quantum(A)
          /\ 2 * (c.allocated - A)
                <= Len(served) * (Quantum(A) + Quantum(c.allocated))

\* a bank served the later, higher-scored startup first and in full, the
\* other one with what was left, and returned more than it had to lend
C40_Witness ==
    LET c == runners.call
    IN  /\ c.bank # 0
        /\ Len(c.served) = 2
        /\ c.served[1].startup = 2
        /\ c.before[2].funding_score > c.before[1].funding_score
        /\ c.served[1].give = c.before[2].request_amount
        /\ c.served[2].give < c.before[1].request_amount
        /\ c.allocated > c.available_to_lend

====
